---- MODULE Spec2Model ----
(***************************************************************************)
(* A model of the warpmcp request-processing core: the response cache and  *)
(* response accumulator of src/cache.rs and the batching / dispatch loop   *)
(* of src/server.rs.                                                       *)
(***************************************************************************)
EXTENDS Integers, Sequences, FiniteSets, TLC

\* ------------------------------------------------------------------------
\* Bounds of the model
\* ------------------------------------------------------------------------
\* capacity handed to ResponseCache::new (1000 in server.rs:25), scaled down
CacheCapacity == 2
\* ttl handed to ResponseCache::new (300 s in server.rs:26), in clock ticks
Ttl == 2
\* the clock stops ticking here
MaxTime == 2
\* number of get/set calls explored by the cache-only specification
MaxOps == 4
\* MAX_BATCH_SIZE (100 in server.rs:41), scaled down
MaxBatchSize == 2
\* MAX_REQUEST_SIZE (10 MB in server.rs:42), scaled down, in size units
MaxRequestSize == 4
\* max_size of the ResponseBuffer (10 MB in server.rs:49), scaled down
MaxBufferSize == 4
\* item count at which should_flush answers true (50 in cache.rs:132), scaled
FlushItems == 2
\* item count above which a flush is compressed (100 in server.rs:153), scaled
CompressOver == 4
\* number of lines on the input stream
MaxInput == 2

\* ------------------------------------------------------------------------
\* Option<T>
\* ------------------------------------------------------------------------
None == <<>>
Some(v) == <<v>>

VARIABLES
    cache,      \* LruCache<String, CacheEntry>, most recently used first
    now,        \* Instant::now()
    hits,       \* CacheMetrics.hits
    misses,     \* CacheMetrics.misses
    evictions,  \* CacheMetrics.evictions
    lastOp,     \* history: the last cache call, its result and counter deltas
    shadow,     \* history: per key, the last set of that key and what followed
    clock,      \* history: number of cache calls so far
    input,          \* lines of stdin not yet read (each without its newline)
    eof_seen,       \* history: read_line has returned Ok(0)
    line_buffer,    \* run: line_buffer
    batch_buffer,   \* run: batch_buffer
    pc,             \* run: where the loop stands
    handles,        \* run: the spawned handle_request tasks, in spawn order
    responses,      \* run: responses
    response_buffer,\* run: response_buffer (buffer, current_size)
    stdout,         \* what was written to stdout, chunk by chunk
    accepted,       \* history: the lines pushed into a batch, in order
    offered,        \* history: the responses handed to response_buffer.add
    overtaken,      \* history: a task finished before one spawned earlier
    raw_accepted,   \* history: the accepted lines as they arrived on stdin
    gc,             \* get_connection: its locals and where it stands
    conn_success,   \* counter redis.connection.success
    conn_failures,  \* counter redis.connection.failures
    redis,          \* the store: the assignment:<card> keys and agent task sets
    calls,          \* the take_trello_task calls in flight
    qb,             \* advanced_search: the SearchParams and the QueryBuilder
    dec,            \* advanced_search: the reply being decoded
    idx,            \* the search index in the store and the commands sent
    lock,           \* the RwLock around the LruCache: the task holding it
    ltasks,         \* tasks calling ResponseCache::get / set step by step
    in_use,         \* the pool: connections leased and not yet returned
    ptasks,         \* request tasks that lease a connection for a tool
    rd              \* the read_line future racing the batch timeout

cacheVars == <<cache, hits, misses, evictions, lastOp, shadow, clock>>

\* the connection pool and the store behind it
sideVars == <<gc, conn_success, conn_failures, redis, calls>>

\* the search subsystem and the lock of the cache
moreVars == <<qb, dec, idx, lock, ltasks>>

\* the leases of the pool and the pending read of a line
extraVars == <<in_use, ptasks, rd>>

\* ------------------------------------------------------------------------
\* lru::LruCache as used by ResponseCache
\* ------------------------------------------------------------------------
Keys(c) == {c[i].key : i \in 1..Len(c)}

IndexOf(c, key) ==
    IF \E i \in 1..Len(c) : c[i].key = key
    THEN CHOOSE i \in 1..Len(c) : c[i].key = key
    ELSE 0

RemoveAt(c, i) == SubSeq(c, 1, i - 1) \o SubSeq(c, i + 1, Len(c))

\* LruCache::get: a found entry becomes the most recently used one
LruCache_get(c, key) ==
    LET i == IndexOf(c, key) IN
    IF i = 0
    THEN [entry |-> None, cache |-> c]
    ELSE [entry |-> Some(c[i]), cache |-> <<c[i]>> \o RemoveAt(c, i)]

\* LruCache::pop: removes the entry of key, if any
LruCache_pop(c, key) ==
    LET i == IndexOf(c, key) IN
    IF i = 0 THEN c ELSE RemoveAt(c, i)

\* a put that makes room for nothing
LruCache_put_unbounded(c, key, entry, cap) ==
    LET i == IndexOf(c, key) IN
    IF i # 0
    THEN [old |-> Some(c[i]), cache |-> <<entry>> \o RemoveAt(c, i)]
    ELSE [old |-> None, cache |-> <<entry>> \o c]

\* LruCache::put: returns the old value only when the key was already
\* present; a new key at capacity silently drops the least recently used
\* entry and returns None
LruCache_put(c, key, entry, cap) ==
    LET i == IndexOf(c, key) IN
    IF i # 0
    THEN [old |-> Some(c[i]), cache |-> <<entry>> \o RemoveAt(c, i)]
    ELSE IF Len(c) >= cap
         THEN [old |-> None, cache |-> <<entry>> \o SubSeq(c, 1, Len(c) - 1)]
         ELSE [old |-> None, cache |-> <<entry>> \o c]

\* ------------------------------------------------------------------------
\* ResponseCache (src/cache.rs)
\* ------------------------------------------------------------------------
\* a get that answers None for an expired entry but leaves it in the cache
ResponseCache_get_keepExpired(c, key, t) ==
    LET g == LruCache_get(c, key) IN
    IF g.entry # None /\ g.entry[1].expires_at > t
    THEN [ret |-> Some(g.entry[1].value), cache |-> g.cache,
          dh |-> 1, dm |-> 0, de |-> 0]
    ELSE IF g.entry # None
         THEN [ret |-> None, cache |-> g.cache,
               dh |-> 0, dm |-> 1, de |-> 1]
         ELSE [ret |-> None, cache |-> g.cache,
               dh |-> 0, dm |-> 1, de |-> 0]

\* a get that takes the entry out of the cache when it hits
ResponseCache_get_popsOnHit(c, key, t) ==
    LET g == LruCache_get(c, key) IN
    IF g.entry # None /\ g.entry[1].expires_at > t
    THEN [ret |-> Some(g.entry[1].value),
          cache |-> LruCache_pop(g.cache, key),
          dh |-> 1, dm |-> 0, de |-> 0]
    ELSE IF g.entry # None
         THEN [ret |-> None, cache |-> LruCache_pop(g.cache, key),
               dh |-> 0, dm |-> 1, de |-> 1]
         ELSE [ret |-> None, cache |-> g.cache,
               dh |-> 0, dm |-> 1, de |-> 0]

\* a get with the comparison of expires_at turned around
ResponseCache_get_inverted(c, key, t) ==
    LET g == LruCache_get(c, key) IN
    IF g.entry # None /\ g.entry[1].expires_at < t
    THEN [ret |-> Some(g.entry[1].value), cache |-> g.cache,
          dh |-> 1, dm |-> 0, de |-> 0]
    ELSE IF g.entry # None
         THEN [ret |-> None, cache |-> LruCache_pop(g.cache, key),
               dh |-> 0, dm |-> 1, de |-> 1]
         ELSE [ret |-> None, cache |-> g.cache,
               dh |-> 0, dm |-> 1, de |-> 0]

\* ResponseCache::get, as one step under the write lock
ResponseCache_get(c, key, t) ==
    LET g == LruCache_get(c, key) IN
    IF g.entry # None /\ g.entry[1].expires_at > t
    THEN [ret |-> Some(g.entry[1].value), cache |-> g.cache,
          dh |-> 1, dm |-> 0, de |-> 0]
    ELSE IF g.entry # None
         THEN [ret |-> None, cache |-> LruCache_pop(g.cache, key),
               dh |-> 0, dm |-> 1, de |-> 1]
         ELSE [ret |-> None, cache |-> g.cache,
               dh |-> 0, dm |-> 1, de |-> 0]

\* a set that forgets to add the ttl
ResponseCache_set_noTtl(c, key, value, t) ==
    LET p == LruCache_put(c, key,
                 [key |-> key, value |-> value, expires_at |-> t],
                 CacheCapacity) IN
    [cache |-> p.cache, de |-> IF p.old # None THEN 1 ELSE 0]

\* ResponseCache::set, as one step under the write lock
ResponseCache_set(c, key, value, t) ==
    LET p == LruCache_put(c, key,
                 [key |-> key, value |-> value, expires_at |-> t + Ttl],
                 CacheCapacity) IN
    [cache |-> p.cache, de |-> IF p.old # None THEN 1 ELSE 0]

\* ------------------------------------------------------------------------
\* History kept beside the cache (not program state)
\* ------------------------------------------------------------------------
NoOp == [op |-> "none", key |-> <<>>, ret |-> None, at |-> 0,
         dh |-> 0, dm |-> 0, de |-> 0,
         wasNew |-> FALSE, wasFull |-> FALSE,
         removed |-> {}, lru |-> {}]

\* the keys held by c that were used least recently, by the history's clock
LeastRecent(c, sh) ==
    {k \in Keys(c) : \A j \in Keys(c) : sh[k].used <= sh[j].used}

Upd(f, k, v) == [x \in DOMAIN f \cup {k} |-> IF x = k THEN v ELSE f[x]]

\* the cache call get(key), with its bookkeeping
DoGet(key) ==
    LET r == ResponseCache_get(cache, key, now)
        expired == key \in DOMAIN shadow /\ now >= shadow[key].at + Ttl
    IN
    /\ cache' = r.cache
    /\ hits' = hits + r.dh
    /\ misses' = misses + r.dm
    /\ evictions' = evictions + r.de
    /\ clock' = clock + 1
    /\ lastOp' = [NoOp EXCEPT !.op = "get", !.key = key, !.ret = r.ret,
                              !.at = now, !.dh = r.dh, !.dm = r.dm,
                              !.de = r.de]
    /\ shadow' = IF key \in DOMAIN shadow
                 THEN [shadow EXCEPT
                         ![key].used = IF r.ret # None THEN clock + 1 ELSE @,
                         ![key].expiredGets = IF expired THEN @ + 1 ELSE @]
                 ELSE shadow

\* the cache call set(key, value), with its bookkeeping
DoSet(key, value) ==
    LET r == ResponseCache_set(cache, key, value, now)
        gone == Keys(cache) \ Keys(r.cache)
    IN
    /\ cache' = r.cache
    /\ evictions' = evictions + r.de
    /\ UNCHANGED <<hits, misses>>
    /\ clock' = clock + 1
    /\ lastOp' = [NoOp EXCEPT !.op = "set", !.key = key, !.at = now,
                              !.de = r.de,
                              !.wasNew = key \notin Keys(cache),
                              !.wasFull = Len(cache) >= CacheCapacity,
                              !.removed = gone,
                              !.lru = LeastRecent(cache, shadow)]
    /\ shadow' = Upd([k \in DOMAIN shadow |->
                        IF k \in gone THEN [shadow[k] EXCEPT !.dropped = TRUE]
                                      ELSE shadow[k]],
                     key,
                     [val |-> value, at |-> now, dropped |-> FALSE,
                      expiredGets |-> 0, used |-> clock + 1,
                      setClock |-> clock + 1])

Tick ==
    /\ now < MaxTime
    /\ now' = now + 1

\* ------------------------------------------------------------------------
\* Text: a line is a sequence of tokens, each with a size in bytes
\* ------------------------------------------------------------------------
Whitespace == {" ", "\n"}

\* "bigjunk" is the largest text that still passes the size check once its
\* newline is counted; "hugejunk" is one unit larger
TokenSize(tok) ==
    CASE tok = "bigjunk" -> MaxRequestSize - 1
      [] tok = "hugejunk" -> MaxRequestSize
      [] OTHER -> 1

RECURSIVE Bytes(_)
Bytes(s) == IF s = <<>> THEN 0 ELSE TokenSize(Head(s)) + Bytes(Tail(s))

RECURSIVE TrimStart(_)
TrimStart(s) ==
    IF s # <<>> /\ Head(s) \in Whitespace THEN TrimStart(Tail(s)) ELSE s

RECURSIVE TrimEnd(_)
TrimEnd(s) ==
    IF s # <<>> /\ s[Len(s)] \in Whitespace
    THEN TrimEnd(SubSeq(s, 1, Len(s) - 1))
    ELSE s

\* str::trim
Trim(s) == TrimEnd(TrimStart(s))

\* ------------------------------------------------------------------------
\* JSON: the request texts and the values they parse to
\* ------------------------------------------------------------------------
JsonNull == [null |-> TRUE]
JsonString(text) == [isStr |-> TRUE, text |-> text]
JsonNumber(text) == [isStr |-> FALSE, text |-> text]

\* the catalogue of handle_tools_list, which is also the set of match arms
\* of handle_tools_call
ToolNames == <<"scan_trello_tasks", "take_trello_task", "update_trello_task",
               "store_knowledge", "search_knowledge", "learn_from_agents",
               "heartbeat", "check_agent_status", "execute_rag_query">>

Params(name) == Some([name |-> Some(name), arguments |-> Some("{}")])

JsonTexts == {"nometh", "nummeth", "init", "list", "other",
              "callbad", "callbadunk", "callunk", "callA", "callB", "callC"}

Json(text) ==
    CASE text = "nometh" ->
           [id |-> Some("1"), method |-> None, params |-> None]
      [] text = "nummeth" ->
           [id |-> Some("2"), method |-> Some(JsonNumber("5")), params |-> None]
      [] text = "init" ->
           [id |-> Some("1"), method |-> Some(JsonString("initialize")),
            params |-> None]
      [] text = "list" ->
           [id |-> None, method |-> Some(JsonString("tools/list")),
            params |-> None]
      [] text = "other" ->
           [id |-> Some("2"), method |-> Some(JsonString("resources/list")),
            params |-> None]
      [] text = "callbad" ->
           [id |-> Some("1"), method |-> Some(JsonString("tools/call")),
            params |-> Some([name |-> None, arguments |-> Some("{}")])]
      [] text = "callbadunk" ->
           [id |-> Some("1"), method |-> Some(JsonString("tools/call")),
            params |-> Some([name |-> Some("drop_database"),
                             arguments |-> None])]
      [] text = "callunk" ->
           [id |-> Some("2"), method |-> Some(JsonString("tools/call")),
            params |-> Params("drop_database")]
      [] text = "callA" ->
           [id |-> Some("1"), method |-> Some(JsonString("tools/call")),
            params |-> Params("check_agent_status")]
      [] text = "callB" ->
           [id |-> Some("2"), method |-> Some(JsonString("tools/call")),
            params |-> Params("take_trello_task")]
      [] text = "callC" ->
           [id |-> Some("2"), method |-> Some(JsonString("tools/call")),
            params |-> Params("update_trello_task")]

\* serde_json::from_str::<Value>
from_str(line) ==
    IF Len(line) = 1 /\ line[1] \in JsonTexts THEN Some(Json(line[1])) ELSE None

\* a mutant that takes any method value for a string
as_str_any(m) ==
    IF m = None THEN None ELSE Some(m[1].text)

\* request.get("method").and_then(|m| m.as_str())
as_str(m) ==
    IF m # None /\ m[1].isStr THEN Some(m[1].text) ELSE None

\* a mutant for which arguments is optional
ToolCall_from_value_lenient(params) ==
    IF params # None /\ params[1].name # None
    THEN Some([name |-> params[1].name[1], arguments |-> "{}"])
    ELSE None

\* serde_json::from_value::<ToolCall>: name and arguments are both required
ToolCall_from_value(params) ==
    IF params # None /\ params[1].name # None /\ params[1].arguments # None
    THEN Some([name |-> params[1].name[1], arguments |-> params[1].arguments[1]])
    ELSE None

\* json!: an absent id is written as null
json_id(id) == IF id = None THEN "null" ELSE id[1]

\* ------------------------------------------------------------------------
\* Responses (src/server.rs)
\* ------------------------------------------------------------------------
\* a mutant that fills in a result member beside the error
error_response_both(id, code, message) ==
    [jsonrpc |-> "2.0", id |-> json_id(id), result |-> JsonNull,
     error |-> [code |-> code, message |-> message]]

error_response(id, code, message) ==
    [jsonrpc |-> "2.0", id |-> json_id(id),
     error |-> [code |-> code, message |-> message]]

parse_error_response(line) ==
    [jsonrpc |-> "2.0",
     error |-> [code |-> -32700, message |-> "Parse error", data |-> line]]

null_result_response == [jsonrpc |-> "2.0", result |-> JsonNull]

internal_error_response(message) ==
    [jsonrpc |-> "2.0", error |-> [code |-> -32603, message |-> message]]

handle_initialize(id) ==
    [jsonrpc |-> "2.0", id |-> json_id(id),
     result |-> [protocolVersion |-> "2024-11-05",
                 serverInfo |-> "warp-tasks-mcp"]]

handle_tools_list(id) ==
    [jsonrpc |-> "2.0", id |-> json_id(id), result |-> [tools |-> ToolNames]]

tool_success_response(id, content) ==
    [jsonrpc |-> "2.0", id |-> json_id(id), result |-> [content |-> content]]

\* a mutant that reports a failed tool as a JSON-RPC error
tool_error_response_asFault(id, e) ==
    [jsonrpc |-> "2.0", id |-> json_id(id),
     error |-> [code |-> -32603, message |-> e]]

tool_error_response(id, e) ==
    [jsonrpc |-> "2.0", id |-> json_id(id),
     result |-> [isError |-> TRUE, content |-> <<"Error", e>>]]

\* a mutant without the catch-all arm
is_match_arm_any(name) == TRUE

\* the named arms of the match in handle_tools_call
is_match_arm(name) == \E i \in 1..Len(ToolNames) : ToolNames[i] = name

\* handle_tools_call up to the call of the tool: either a response, or the
\* tool to run
handle_tools_call_route(id, params) ==
    LET tool_call == ToolCall_from_value(params) IN
    IF tool_call = None
    THEN [tool |-> None,
          resp |-> Some(error_response(id, -32602, "Invalid params"))]
    ELSE IF is_match_arm(tool_call[1].name)
         THEN [tool |-> Some(tool_call[1].name), resp |-> None]
         ELSE [tool |-> None,
               resp |-> Some(error_response(id, -32601, "Unknown tool"))]

\* handle_request after the cache lookup has missed
handle_request_miss(line0) ==
    LET line == Trim(line0) IN
    IF line = <<>>
    THEN [tool |-> None, resp |-> Some(null_result_response)]
    ELSE
    LET request == from_str(line) IN
    IF request = None
    THEN [tool |-> None, resp |-> Some(parse_error_response(line))]
    ELSE
    LET id == request[1].id
        method == as_str(request[1].method)
        params == request[1].params
    IN
    IF method = None
    THEN [tool |-> None,
          resp |-> Some(error_response(id, -32600, "Invalid Request"))]
    ELSE CASE method[1] = "initialize" ->
                [tool |-> None, resp |-> Some(handle_initialize(id))]
           [] method[1] = "tools/list" ->
                [tool |-> None, resp |-> Some(handle_tools_list(id))]
           [] method[1] = "tools/call" ->
                handle_tools_call_route(id, params)
           [] OTHER ->
                [tool |-> None,
                 resp |-> Some(error_response(id, -32601, "Method not found"))]

\* the id handle_tools_call was given for this line
RequestId(line) == from_str(Trim(line))[1].id

\* ------------------------------------------------------------------------
\* Serialized responses and the ResponseBuffer (src/cache.rs)
\* ------------------------------------------------------------------------
\* the parse error echoes the request line, every other response is short
ValueSize(v) ==
    IF "error" \in DOMAIN v /\ "data" \in DOMAIN v.error
    THEN 1 + Bytes(v.error.data)
    ELSE 1

\* Value::to_string: the text of the value, with its length
Display(v) == [text |-> v, len |-> ValueSize(v)]

\* serde_json::to_string(&Value): a Result, Ok for every Value
to_string(v) == Some(Display(v))

ResponseBuffer_new == [buffer |-> <<>>, current_size |-> 0]

ResponseBuffer_add(rb, response) ==
    IF rb.current_size + response.len > MaxBufferSize
    THEN [ok |-> FALSE, rb |-> rb]
    ELSE [ok |-> TRUE,
          rb |-> [buffer |-> Append(rb.buffer, response),
                  current_size |-> rb.current_size + response.len]]

\* a should_flush that never asks for a flush
ResponseBuffer_should_flush_never(rb) == FALSE

\* ResponseBuffer::should_flush
ResponseBuffer_should_flush(rb) ==
    \/ rb.current_size >= MaxBufferSize \div 2
    \/ Len(rb.buffer) >= FlushItems

\* a mutant that writes the items of a flush last to first
Written_reversed(buffered) ==
    [i \in 1..Len(buffered) |->
        [gz |-> FALSE, items |-> <<buffered[Len(buffered) + 1 - i]>>]]

\* what a flush writes to stdout: one compressed stream, or the items one by one
Written(buffered) ==
    IF Len(buffered) > CompressOver
    THEN <<[gz |-> TRUE, items |-> buffered]>>
    ELSE [i \in 1..Len(buffered) |-> [gz |-> FALSE, items |-> <<buffered[i]>>]]

\* ------------------------------------------------------------------------
\* MCPServer::run (src/server.rs): collecting a batch
\* ------------------------------------------------------------------------
runVars == <<input, eof_seen, line_buffer, batch_buffer, pc, handles,
             responses, response_buffer, stdout, accepted, offered,
             overtaken, raw_accepted>>

NewTask(line) ==
    [line |-> line, pc |-> "lookup", out |-> None, hit |-> FALSE,
     ran |-> None, conn |-> 0, wrote |-> FALSE,
     from |-> 0, dh |-> 0, setClock |-> 0, event |-> ""]

\* leaving the inner loop: a non-empty batch is drained into spawned tasks
Break ==
    IF batch_buffer # <<>>
    THEN /\ handles' = [i \in 1..Len(batch_buffer) |-> NewTask(batch_buffer[i])]
         /\ batch_buffer' = <<>>
         /\ responses' = <<>>
         /\ pc' = "await"
    ELSE /\ pc' = "loopend"
         /\ UNCHANGED <<handles, batch_buffer, responses>>

\* read_line returned Ok(n), n > 0
ReadLine ==
    /\ pc = "collect"
    /\ Len(batch_buffer) < MaxBatchSize
    /\ input # <<>>
    /\ LET raw == Head(input)
           buf == line_buffer \o raw \o <<"\n">>
           n == Bytes(raw) + 1
           line == Trim(buf)
       IN
       /\ input' = Tail(input)
       /\ IF n > MaxRequestSize
          THEN /\ line_buffer' = buf
               /\ UNCHANGED <<batch_buffer, accepted, raw_accepted>>
          ELSE /\ line_buffer' = <<>>
               /\ IF line # <<>>
                  THEN /\ batch_buffer' = Append(batch_buffer, line)
                       /\ accepted' = Append(accepted, line)
                       /\ raw_accepted' = Append(raw_accepted, raw)
                  ELSE UNCHANGED <<batch_buffer, accepted, raw_accepted>>
    /\ UNCHANGED <<eof_seen, pc, handles, responses, response_buffer, stdout,
                   offered, overtaken, now>>
    /\ UNCHANGED cacheVars
    /\ UNCHANGED sideVars
    /\ UNCHANGED moreVars
    /\ UNCHANGED extraVars

\* read_line returned Ok(0)
ReadEof ==
    /\ pc = "collect"
    /\ Len(batch_buffer) < MaxBatchSize
    /\ input = <<>>
    /\ eof_seen' = TRUE
    /\ Break
    /\ UNCHANGED <<input, line_buffer, response_buffer, stdout, accepted,
                   offered, overtaken, now>>
    /\ UNCHANGED cacheVars
    /\ UNCHANGED raw_accepted
    /\ UNCHANGED sideVars
    /\ UNCHANGED moreVars
    /\ UNCHANGED extraVars

\* the batch timeout won the select!
Timeout ==
    /\ pc = "collect"
    /\ Len(batch_buffer) < MaxBatchSize
    /\ Break
    /\ UNCHANGED <<input, eof_seen, line_buffer, response_buffer, stdout,
                   accepted, offered, overtaken, now>>
    /\ UNCHANGED cacheVars
    /\ UNCHANGED raw_accepted
    /\ UNCHANGED sideVars
    /\ UNCHANGED moreVars
    /\ UNCHANGED extraVars

\* the batch is full
BatchFull ==
    /\ pc = "collect"
    /\ Len(batch_buffer) >= MaxBatchSize
    /\ Break
    /\ UNCHANGED <<input, eof_seen, line_buffer, response_buffer, stdout,
                   accepted, offered, overtaken, now>>
    /\ UNCHANGED cacheVars
    /\ UNCHANGED raw_accepted
    /\ UNCHANGED sideVars
    /\ UNCHANGED moreVars
    /\ UNCHANGED extraVars

\* ------------------------------------------------------------------------
\* The spawned tasks: MCPServer::handle_request
\* ------------------------------------------------------------------------
\* tools whose code calls get_trello_config, which panics on a missing variable
TrelloTools == {"scan_trello_tasks", "take_trello_task", "update_trello_task"}

\* what can happen to a tool call: nothing wrong, no connection to the store
\* after the retries, a store command that fails, and for the Trello tools a
\* non-success status from the remote API or a panic of the task
Outcomes(name) ==
    {"ok", "err_conn", "err_op"} \cup
    (IF name \in TrelloTools THEN {"err_status", "panic"} ELSE {})

\* the Trello tools that look at the status of the reply: scan_trello_tasks
\* and take_trello_task test is_success(), update_trello_task only applies ?
\* to send(), which is Ok for every status
checks_status(name) == name \in {"scan_trello_tasks", "take_trello_task"}

\* the Result a tool returns: "" for Ok, the error text for Err
tool_result(name, outcome) ==
    CASE outcome = "ok" -> ""
      [] outcome = "err_conn" -> "connection"
      [] outcome = "err_op" -> "operation"
      [] outcome = "err_status" -> IF checks_status(name) THEN "status" ELSE ""

\* texts a successful tool can return
ToolTexts == {"r1", "r2"}

\* history: task i finishes while a task spawned before it has not
Overtakes(i) == \E j \in 1..(i - 1) : handles[j].pc # "done"

JoinOk(v) == <<"Ok", v>>
JoinErr == <<"Err">>

\* history: the set call that wrote the entry of key, if that entry is still
\* in the cache and its ttl has not elapsed; 0 otherwise
LiveSet(key) ==
    IF /\ key \in DOMAIN shadow
       /\ ~shadow[key].dropped
       /\ now < shadow[key].at + Ttl
    THEN shadow[key].setClock
    ELSE 0

\* lines 183-231: the cache lookup and, on a miss, everything up to the
\* first await of handle_tools_call
Lookup(i) ==
    /\ pc = "await"
    /\ handles[i].pc = "lookup"
    /\ LET line == handles[i].line
           r == ResponseCache_get(cache, line, now)
           d == handle_request_miss(line)
           seen == [handles[i] EXCEPT !.from = LiveSet(line), !.dh = r.dh]
       IN
       /\ DoGet(line)
       /\ IF r.ret # None
          THEN /\ handles' = [handles EXCEPT
                                ![i] = [seen EXCEPT
                                          !.pc = "done", !.hit = TRUE,
                                          !.out = Some(JoinOk(Some(r.ret[1])))]]
               /\ overtaken' = (overtaken \/ Overtakes(i))
          ELSE IF d.resp # None
               THEN /\ handles' = [handles EXCEPT
                                     ![i] = [seen EXCEPT
                                        !.pc = "done",
                                        !.out = Some(JoinOk(Some(d.resp[1])))]]
                    /\ overtaken' = (overtaken \/ Overtakes(i))
               ELSE /\ handles' = [handles EXCEPT
                                     ![i] = [seen EXCEPT !.pc = "tool",
                                                         !.ran = d.tool]]
                    /\ UNCHANGED overtaken
    /\ UNCHANGED <<input, eof_seen, line_buffer, batch_buffer, pc, responses,
                   response_buffer, stdout, accepted, offered, now>>
    /\ UNCHANGED raw_accepted
    /\ UNCHANGED sideVars
    /\ UNCHANGED moreVars
    /\ UNCHANGED extraVars

\* a mutant that stores the response whatever the result
stores_response_always(result) == TRUE

\* lines 444-456: only the Ok arm of match result calls response_cache.set
stores_response(result) == result = ""

\* lines 411-465: the tool runs and its result is turned into a response;
\* a successful response is stored under the request line
ToolRun(i) ==
    /\ pc = "await"
    /\ handles[i].pc = "tool"
    /\ LET line == handles[i].line
           id == RequestId(line)
           name == handles[i].ran[1]
       IN
       \E outcome \in Outcomes(name), content \in ToolTexts :
          IF outcome = "panic"
          THEN /\ handles' = [handles EXCEPT
                                ![i].pc = "done",
                                ![i].out = Some(JoinErr),
                                ![i].conn = 1,
                                ![i].event = outcome]
               /\ UNCHANGED cacheVars
          ELSE LET result == tool_result(name, outcome)
                   response == IF result = ""
                               THEN tool_success_response(id, content)
                               ELSE tool_error_response(id, result)
               IN
               /\ IF stores_response(result)
                  THEN DoSet(line, response)
                  ELSE UNCHANGED cacheVars
               /\ handles' = [handles EXCEPT
                                ![i].pc = "done",
                                ![i].out = Some(JoinOk(Some(response))),
                                ![i].conn = IF outcome = "err_conn"
                                            THEN 0 ELSE 1,
                                ![i].wrote = stores_response(result),
                                ![i].setClock = IF stores_response(result)
                                                THEN clock + 1 ELSE @,
                                ![i].event = outcome]
    /\ overtaken' = (overtaken \/ Overtakes(i))
    /\ UNCHANGED <<input, eof_seen, line_buffer, batch_buffer, pc, responses,
                   response_buffer, stdout, accepted, offered, now>>
    /\ UNCHANGED raw_accepted
    /\ UNCHANGED sideVars
    /\ UNCHANGED moreVars
    /\ UNCHANGED extraVars

\* time passes while the tasks run; the clock is only ever read by a cache
\* call, which compares it with the expires_at of an entry, so it moves only
\* while there is an entry and a task that can still make a call
TaskTick ==
    /\ pc = "await"
    /\ cache # <<>>
    /\ \E i \in 1..Len(handles) : handles[i].pc # "done"
    /\ Tick
    /\ UNCHANGED runVars
    /\ UNCHANGED cacheVars
    /\ UNCHANGED sideVars
    /\ UNCHANGED moreVars
    /\ UNCHANGED extraVars

\* ------------------------------------------------------------------------
\* MCPServer::run: collecting the responses and writing them
\* ------------------------------------------------------------------------
\* a mutant that takes the handles from the back of the vector
AwaitIndex_fromBack(resps, hs) == Len(hs) - Len(resps)

\* for handle in handles: the handle that is awaited next
AwaitIndex(resps, hs) == Len(resps) + 1

\* a mutant that answers a failed task with the null result
collect_response_nullOnFailure(out) ==
    IF out = JoinErr \/ out[2] = None
    THEN Display(null_result_response)
    ELSE Display(out[2][1])

\* lines 113-145: the string pushed for the result of a handle
collect_response(out) ==
    IF out = JoinErr
    THEN Display(internal_error_response("Internal error: task"))
    ELSE IF out[2] = None
         THEN Display(null_result_response)
         ELSE LET response_str == to_string(out[2][1]) IN
              IF response_str # None
              THEN response_str[1]
              ELSE Display(internal_error_response("Internal error"))

\* a mutant that leaves the loop over the handles after the first one
all_awaited_early(resps, hs) == TRUE

\* the loop for handle in handles ends when every handle has been awaited
all_awaited(resps, hs) == Len(resps) = Len(hs)

\* handle.await returns for the next handle
Await ==
    /\ pc = "await"
    /\ LET k == AwaitIndex(responses, handles) IN
       /\ k <= Len(handles)
       /\ handles[k].pc = "done"
       /\ responses' = Append(responses, collect_response(handles[k].out[1]))
    /\ pc' = IF all_awaited(responses', handles) THEN "buffer" ELSE "await"
    /\ UNCHANGED <<input, eof_seen, line_buffer, batch_buffer, handles,
                   response_buffer, stdout, accepted, offered, overtaken, now>>
    /\ UNCHANGED cacheVars
    /\ UNCHANGED raw_accepted
    /\ UNCHANGED sideVars
    /\ UNCHANGED moreVars
    /\ UNCHANGED extraVars

\* lines 149-169: one round of the loop over responses
Offer ==
    /\ pc = "buffer"
    /\ responses # <<>>
    /\ LET response == Head(responses)
           a == ResponseBuffer_add(response_buffer, response)
       IN
       /\ offered' = Append(offered, response)
       /\ responses' = Tail(responses)
       /\ IF ~a.ok \/ ResponseBuffer_should_flush(a.rb)
          THEN /\ stdout' = stdout \o Written(a.rb.buffer)
               /\ response_buffer' = ResponseBuffer_new
          ELSE /\ response_buffer' = a.rb
               /\ UNCHANGED stdout
    /\ UNCHANGED <<input, eof_seen, line_buffer, batch_buffer, pc, handles,
                   accepted, overtaken, now>>
    /\ UNCHANGED cacheVars
    /\ UNCHANGED raw_accepted
    /\ UNCHANGED sideVars
    /\ UNCHANGED moreVars
    /\ UNCHANGED extraVars

\* an outer loop that has no exit
main_loop_breaks_never(batch) == FALSE

\* lines 173-175: if batch_buffer.is_empty() { break; }
main_loop_breaks(batch) == batch = <<>>

\* lines 172-176: the end of the outer loop body
LoopEnd ==
    /\ \/ pc = "loopend"
       \/ pc = "buffer" /\ responses = <<>>
    /\ pc' = IF main_loop_breaks(batch_buffer) THEN "done" ELSE "collect"
    /\ UNCHANGED <<input, eof_seen, line_buffer, batch_buffer, handles,
                   responses, response_buffer, stdout, accepted, offered,
                   overtaken, now>>
    /\ UNCHANGED cacheVars
    /\ UNCHANGED raw_accepted
    /\ UNCHANGED sideVars
    /\ UNCHANGED moreVars
    /\ UNCHANGED extraVars

\* ------------------------------------------------------------------------
\* RedisManager::get_connection (src/utils.rs)
\* ------------------------------------------------------------------------
\* let mut retries = 3
Retries == 3
\* let mut backoff = Duration::from_millis(100), in milliseconds
InitialBackoff == 100
\* attempts explored for one call of get_connection
MaxAttempts == 6

\* the connections the pool can lease
PoolConns == {1, 2}

\* the arm of a failed pool.get(): one failure is counted, and the call
\* returns the error when no retry is left
pool_get_err_arm(retries) ==
    [success |-> 0, failures |-> 1, ret |-> (retries = 0)]

\* a ping arm that does not count a failed ping
ping_arm_uncounted(ok) ==
    IF ok
    THEN [success |-> 1, failures |-> 0, ret |-> TRUE]
    ELSE [success |-> 0, failures |-> 0, ret |-> FALSE]

\* a ping arm that returns the connection whatever the ping said
ping_arm_unchecked(ok) ==
    IF ok
    THEN [success |-> 1, failures |-> 0, ret |-> TRUE]
    ELSE [success |-> 0, failures |-> 1, ret |-> TRUE]

\* the arms of the match on the PING: Ok counts a success and returns the
\* connection, Err counts a failure and falls through to the retry
ping_arm(ok) ==
    IF ok
    THEN [success |-> 1, failures |-> 0, ret |-> TRUE]
    ELSE [success |-> 0, failures |-> 1, ret |-> FALSE]

\* a backoff that grows by a fixed step
next_backoff_linear(backoff) == backoff + InitialBackoff

\* backoff *= 2
next_backoff(backoff) == backoff * 2

\* get_connection on entry; attempts, trace, slept and pinged are history:
\* the attempts started, the outcome of every finished attempt, the sleeps
\* made, and the connection the PING of this attempt succeeded on
InitGc ==
    [pc |-> "get", retries |-> Retries, backoff |-> InitialBackoff,
     conn |-> 0, ret |-> 0,
     attempts |-> 0, trace |-> <<>>, slept |-> <<>>, pinged |-> 0]

\* self.pool.get().await
PoolGet ==
    /\ gc.pc = "get"
    /\ gc.attempts < MaxAttempts
    /\ \E res \in PoolConns \cup {0} :
          IF res = 0
          THEN LET arm == pool_get_err_arm(gc.retries) IN
               /\ conn_failures' = conn_failures + arm.failures
               /\ conn_success' = conn_success + arm.success
               /\ gc' = [gc EXCEPT !.attempts = @ + 1,
                                   !.pinged = 0,
                                   !.trace = Append(@, "get_err"),
                                   !.pc = IF arm.ret THEN "err" ELSE "backoff"]
          ELSE /\ gc' = [gc EXCEPT !.attempts = @ + 1,
                                   !.pinged = 0,
                                   !.conn = res,
                                   !.pc = "ping"]
               /\ UNCHANGED <<conn_success, conn_failures>>
    /\ UNCHANGED <<redis, calls>>
    /\ UNCHANGED <<cacheVars, now, runVars>>
    /\ UNCHANGED moreVars
    /\ UNCHANGED extraVars

\* redis::cmd("PING").query_async(&mut conn).await
Ping ==
    /\ gc.pc = "ping"
    /\ \E ok \in BOOLEAN :
          LET arm == ping_arm(ok) IN
          /\ conn_success' = conn_success + arm.success
          /\ conn_failures' = conn_failures + arm.failures
          /\ gc' = [gc EXCEPT
                      !.pinged = IF ok THEN gc.conn ELSE 0,
                      !.trace = Append(@, IF ok THEN "ok" ELSE "ping_err"),
                      !.ret = IF arm.ret THEN gc.conn ELSE 0,
                      !.conn = IF arm.ret THEN @ ELSE 0,
                      !.pc = IF arm.ret THEN "ok" ELSE "backoff"]
    /\ UNCHANGED <<redis, calls>>
    /\ UNCHANGED <<cacheVars, now, runVars>>
    /\ UNCHANGED moreVars
    /\ UNCHANGED extraVars

\* retries -= 1; sleep(backoff).await; backoff *= 2
Backoff ==
    /\ gc.pc = "backoff"
    /\ gc' = [gc EXCEPT !.retries = @ - 1,
                        !.slept = Append(@, gc.backoff),
                        !.backoff = next_backoff(@),
                        !.pc = "get"]
    /\ UNCHANGED <<conn_success, conn_failures, redis, calls>>
    /\ UNCHANGED <<cacheVars, now, runVars>>
    /\ UNCHANGED moreVars
    /\ UNCHANGED extraVars

\* ------------------------------------------------------------------------
\* take_trello_task (src/tools/tasks.rs), called by concurrent tasks
\* ------------------------------------------------------------------------
\* number of concurrent calls
NumCalls == 2

Agents == {"a1", "a2"}
Cards == {"c1", "c2"}

\* no value under a key of the store
Nil == "nil"

InitRedis == [assignment |-> [c \in Cards |-> Nil],
              tasks |-> [a \in Agents |-> {}]]

\* a call on entry, with params already deserialized; passed and wrote are
\* history: the call got past the check, the call wrote the assignment
NewCall(agent_id, card_id) ==
    [agent_id |-> agent_id, card_id |-> card_id, pc |-> "conn",
     existing |-> Nil, ret |-> "", passed |-> FALSE, wrote |-> FALSE]

\* the test made on the value read: existing.is_some()
is_assigned(existing) == existing # Nil

\* redis.get_connection().await?
TakeConn(i) ==
    /\ calls[i].pc = "conn"
    /\ \E ok \in BOOLEAN :
          calls' = [calls EXCEPT
                      ![i].pc = IF ok THEN "get" ELSE "done",
                      ![i].ret = IF ok THEN "" ELSE "err_connection"]
    /\ UNCHANGED <<redis, gc, conn_success, conn_failures>>
    /\ UNCHANGED <<cacheVars, now, runVars>>
    /\ UNCHANGED moreVars
    /\ UNCHANGED extraVars

\* conn.get(&assignment_key).await? and the check of what it returned
TakeGet(i) ==
    /\ calls[i].pc = "get"
    /\ \E ok \in BOOLEAN :
          LET existing == redis.assignment[calls[i].card_id] IN
          calls' = [calls EXCEPT
                      ![i].existing = IF ok THEN existing ELSE Nil,
                      ![i].passed = ok /\ ~is_assigned(existing),
                      ![i].pc = IF ok /\ ~is_assigned(existing)
                                THEN "set" ELSE "done",
                      ![i].ret = IF ~ok THEN "err_store"
                                 ELSE IF is_assigned(existing)
                                      THEN "err_already_assigned"
                                      ELSE ""]
    /\ UNCHANGED <<redis, gc, conn_success, conn_failures>>
    /\ UNCHANGED <<cacheVars, now, runVars>>
    /\ UNCHANGED moreVars
    /\ UNCHANGED extraVars

\* conn.set_ex(&assignment_key, &params.agent_id, 3600).await?
TakeSetEx(i) ==
    /\ calls[i].pc = "set"
    /\ \E ok \in BOOLEAN :
          IF ok
          THEN /\ redis' = [redis EXCEPT
                              !.assignment[calls[i].card_id] = calls[i].agent_id]
               /\ calls' = [calls EXCEPT ![i].pc = "sadd", ![i].wrote = TRUE]
          ELSE /\ calls' = [calls EXCEPT ![i].pc = "done",
                                         ![i].ret = "err_store"]
               /\ UNCHANGED redis
    /\ UNCHANGED <<gc, conn_success, conn_failures>>
    /\ UNCHANGED <<cacheVars, now, runVars>>
    /\ UNCHANGED moreVars
    /\ UNCHANGED extraVars

\* conn.sadd(&agent_tasks_key, &params.card_id).await?
TakeSadd(i) ==
    /\ calls[i].pc = "sadd"
    /\ \E ok \in BOOLEAN :
          IF ok
          THEN /\ redis' = [redis EXCEPT
                              !.tasks[calls[i].agent_id] =
                                  @ \cup {calls[i].card_id}]
               /\ calls' = [calls EXCEPT ![i].pc = "comment"]
          ELSE /\ calls' = [calls EXCEPT ![i].pc = "done",
                                         ![i].ret = "err_store"]
               /\ UNCHANGED redis
    /\ UNCHANGED <<gc, conn_success, conn_failures>>
    /\ UNCHANGED <<cacheVars, now, runVars>>
    /\ UNCHANGED moreVars
    /\ UNCHANGED extraVars

\* get_trello_config() and the comment posted to the card, with its retries:
\* the comment is accepted, or the retries run out, or the configuration is
\* missing and the task panics
TakeComment(i) ==
    /\ calls[i].pc = "comment"
    /\ \E outcome \in {"ok", "err_trello", "panic"} :
          calls' = [calls EXCEPT ![i].pc = "done", ![i].ret = outcome]
    /\ UNCHANGED <<redis, gc, conn_success, conn_failures>>
    /\ UNCHANGED <<cacheVars, now, runVars>>
    /\ UNCHANGED moreVars
    /\ UNCHANGED extraVars

InitSideVars ==
    /\ gc = InitGc
    /\ conn_success = 0
    /\ conn_failures = 0
    /\ redis = InitRedis
    /\ calls = <<>>

\* ------------------------------------------------------------------------
\* QueryBuilder and the query of advanced_search (src/tools/search.rs)
\* ------------------------------------------------------------------------
\* longest list of filters, and of numeric filters, in the SearchParams
MaxFilters == 2

\* SearchParams.query: the empty string and a word
Queries == {<<>>, <<"redis">>}

\* SearchParams.fuzzy_distance
FuzzyDistances == {None, Some("2")}

\* SearchParams.filters: (field, value)
TagFilters == {<<"category", "api_docs">>, <<"agent_id", "a1">>}

\* SearchParams.numeric_filters: (field, min, max), min and max as {} writes
\* them
NumericFilters == {<<"created_at", "0", "9">>, <<"access_count", "1", "5">>}

\* QueryBuilder::new
QueryBuilder_new == <<>>

\* a text_match that never writes the fuzzy pattern
text_match_exactOnly(parts, field, value, fuzzy) ==
    Append(parts, <<"@", field, ":">> \o value)

\* QueryBuilder::text_match
text_match(parts, field, value, fuzzy) ==
    Append(parts,
           IF fuzzy
           THEN <<"@", field, ":", "%">> \o value \o <<"%">>
           ELSE <<"@", field, ":">> \o value)

\* QueryBuilder::tag_filter
tag_filter(parts, field, value) ==
    Append(parts, <<"@", field, ":", "{", value, "}">>)

\* QueryBuilder::numeric_range
numeric_range(parts, field, min, max) ==
    Append(parts, <<"@", field, ":", "[", min, " ", max, "]">>)

\* [String]::join
RECURSIVE join(_, _)
join(parts, sep) ==
    IF parts = <<>> THEN <<>>
    ELSE IF Len(parts) = 1 THEN parts[1]
    ELSE parts[1] \o <<sep>> \o join(Tail(parts), sep)

\* QueryBuilder::build
build(parts) ==
    IF parts = <<>> THEN <<"*">> ELSE join(parts, " ")

\* advanced_search at the point where it starts to build the query
NewQb(params) ==
    [params |-> params, parts |-> QueryBuilder_new, pc |-> "text", i |-> 1,
     query |-> <<>>]

\* lines 313-317: the text clause
QText ==
    /\ qb.pc = "text"
    /\ LET fuzzy == qb.params.fuzzy_distance # None IN
       qb' = [qb EXCEPT
                !.parts = IF qb.params.query # <<>>
                          THEN text_match(@, "content", qb.params.query, fuzzy)
                          ELSE @,
                !.pc = "filters"]
    /\ UNCHANGED <<dec, idx, lock, ltasks>>
    /\ UNCHANGED <<cacheVars, now, runVars, sideVars, extraVars>>

\* lines 319-321: one round of the loop over params.filters, or its end
QTag ==
    /\ qb.pc = "filters"
    /\ IF qb.i <= Len(qb.params.filters)
       THEN LET f == qb.params.filters[qb.i] IN
            qb' = [qb EXCEPT !.parts = tag_filter(@, f[1], f[2]),
                             !.i = @ + 1]
       ELSE qb' = [qb EXCEPT !.pc = "numeric", !.i = 1]
    /\ UNCHANGED <<dec, idx, lock, ltasks>>
    /\ UNCHANGED <<cacheVars, now, runVars, sideVars, extraVars>>

\* lines 323-325: one round of the loop over params.numeric_filters, or its
\* end
QNumeric ==
    /\ qb.pc = "numeric"
    /\ IF qb.i <= Len(qb.params.numeric_filters)
       THEN LET f == qb.params.numeric_filters[qb.i] IN
            qb' = [qb EXCEPT !.parts = numeric_range(@, f[1], f[2], f[3]),
                             !.i = @ + 1]
       ELSE qb' = [qb EXCEPT !.pc = "build"]
    /\ UNCHANGED <<dec, idx, lock, ltasks>>
    /\ UNCHANGED <<cacheVars, now, runVars, sideVars, extraVars>>

\* line 327: let query = query_builder.build()
QBuild ==
    /\ qb.pc = "build"
    /\ qb' = [qb EXCEPT !.query = build(qb.parts), !.pc = "done"]
    /\ UNCHANGED <<dec, idx, lock, ltasks>>
    /\ UNCHANGED <<cacheVars, now, runVars, sideVars, extraVars>>

\* SearchParams::default(), with the query built
InitQb ==
    [params |-> [query |-> <<>>, filters |-> <<>>, numeric_filters |-> <<>>,
                 fuzzy_distance |-> Some("2")],
     parts |-> QueryBuilder_new, pc |-> "done", i |-> 1, query |-> <<"*">>]

\* ------------------------------------------------------------------------
\* The reply of FT.SEARCH and its decoding (src/tools/search.rs)
\* ------------------------------------------------------------------------
\* most groups in a reply
MaxGroups == 2
\* rounds of the decoding loop explored
MaxSteps == 4

\* redis::Value
ValueInt(n) == [int |-> n]
ValueData(bytes) == [data |-> bytes]
ValueBulk(items) == [bulk |-> items]
RedisNil == [nil |-> TRUE]

IsInt(v) == "int" \in DOMAIN v
IsData(v) == "data" \in DOMAIN v
IsBulk(v) == "bulk" \in DOMAIN v

\* serde_json::Value as held in a record of the result
JStr(text) == [kind |-> "string", s |-> text]
JNum(text) == [kind |-> "number", s |-> text]
JObj(text) == [kind |-> "object", s |-> text]

\* serde_json::from_str::<Value> on the text of a field value
from_str_value(text) ==
    CASE text = "\"A\"" -> Some(JStr("A"))
      [] text = "5" -> Some(JNum("5"))
      [] text = "{\"a\":1}" -> Some(JObj("{\"a\":1}"))
      [] OTHER -> None

\* Value::as_object: the members of an object, None for any other value
as_object(v) ==
    IF v.kind = "object" THEN Some("a" :> JNum("1")) ELSE None

\* str::parse::<f64>
parse_f64(text) ==
    IF text \in {"0.9", "0.5"} THEN Some(text) ELSE None

\* Option::unwrap_or
unwrap_or(opt, default) == IF opt = None THEN default ELSE opt[1]

\* raw_results.get(i), i counted from 0
get(raw, i) == IF i < Len(raw) THEN Some(raw[i + 1]) ELSE None

\* lines 380-386: the document key, None where the code says continue
key_of(elem) ==
    IF elem # None /\ IsData(elem[1]) THEN Some(elem[1].data)
    ELSE IF elem # None /\ IsBulk(elem[1]) /\ elem[1].bulk # <<>>
              /\ IsData(elem[1].bulk[1])
         THEN Some(elem[1].bulk[1].data)
         ELSE None

\* lines 389-395: the score
score_of(elem) ==
    IF elem # None /\ IsData(elem[1])
    THEN unwrap_or(parse_f64(elem[1].data), "0")
    ELSE IF elem # None /\ IsBulk(elem[1]) /\ Len(elem[1].bulk) > 1
              /\ IsData(elem[1].bulk[2])
         THEN unwrap_or(parse_f64(elem[1].bulk[2].data), "0")
         ELSE "0"

\* lines 404-423: the loop over fields.chunks(2), from chunk number c on;
\* panic is set where unwrap() meets a value that is not an object
RECURSIVE decode_fields(_, _, _)
decode_fields(doc, fields, c) ==
    IF 2 * c - 1 > Len(fields) THEN [doc |-> doc, panic |-> FALSE]
    ELSE IF 2 * c > Len(fields)
              \/ ~IsData(fields[2 * c - 1]) \/ ~IsData(fields[2 * c])
    THEN decode_fields(doc, fields, c + 1)
    ELSE
    LET key_str == fields[2 * c - 1].data
        value_str == fields[2 * c].data
        parsed == from_str_value(value_str)
    IN
    IF key_str = "$"
    THEN IF parsed = None
         THEN decode_fields(doc, fields, c + 1)
         ELSE IF as_object(parsed[1]) = None
              THEN [doc |-> doc, panic |-> TRUE]
              ELSE decode_fields(as_object(parsed[1])[1] @@ doc, fields, c + 1)
    ELSE decode_fields((key_str :> unwrap_or(parsed, JStr(value_str))) @@ doc,
                       fields, c + 1)

\* advanced_search once the reply has arrived; steps is history: the rounds
\* of the loop made so far
NewDec(reply) ==
    [reply |-> reply, pc |-> "total", total_results |-> 0, index |-> 1,
     entries |-> <<>>, ret |-> None, steps |-> 0]

\* lines 370-376: the total, and index = 1
DecodeTotal ==
    /\ dec.pc = "total"
    /\ LET first == get(dec.reply, 0) IN
       dec' = [dec EXCEPT
                 !.total_results = IF first # None /\ IsInt(first[1])
                                   THEN first[1].int ELSE 0,
                 !.index = 1,
                 !.pc = "walk"]
    /\ UNCHANGED <<qb, idx, lock, ltasks>>
    /\ UNCHANGED <<cacheVars, now, runVars, sideVars, extraVars>>

\* lines 378-428: one round of the while loop
DecodeGroup ==
    /\ dec.pc = "walk"
    /\ dec.index < Len(dec.reply)
    /\ dec.steps < MaxSteps
    /\ LET key == key_of(get(dec.reply, dec.index))
           score == score_of(get(dec.reply, dec.index + 1))
           third == get(dec.reply, dec.index + 2)
       IN
       IF key = None
       THEN dec' = [dec EXCEPT !.steps = @ + 1]
       ELSE IF third # None /\ IsBulk(third[1])
       THEN LET d == decode_fields(("_key" :> JStr(key[1])) @@
                                   ("_score" :> JNum(score)),
                                   third[1].bulk, 1)
            IN
            IF d.panic
            THEN dec' = [dec EXCEPT !.steps = @ + 1, !.pc = "panic"]
            ELSE dec' = [dec EXCEPT !.steps = @ + 1,
                                    !.entries = Append(@, d.doc),
                                    !.index = @ + 3]
       ELSE dec' = [dec EXCEPT !.steps = @ + 1, !.index = @ + 3]
    /\ UNCHANGED <<qb, idx, lock, ltasks>>
    /\ UNCHANGED <<cacheVars, now, runVars, sideVars, extraVars>>

\* lines 430-433: the value returned
DecodeReturn ==
    /\ dec.pc = "walk"
    /\ dec.index >= Len(dec.reply)
    /\ dec' = [dec EXCEPT
                 !.ret = Some([total |-> dec.total_results,
                               results |-> dec.entries]),
                 !.pc = "done"]
    /\ UNCHANGED <<qb, idx, lock, ltasks>>
    /\ UNCHANGED <<cacheVars, now, runVars, sideVars, extraVars>>

\* the elements a reply is made of
ReplyKeys == {ValueData("doc:1")}
ReplyFields ==
    {ValueBulk(<<ValueData("content"), ValueData("\"A\"")>>),
     ValueBulk(<<ValueData("content"), ValueData("plain"),
                 ValueData("tags"), ValueData("5")>>),
     ValueBulk(<<ValueData("$"), ValueData("{\"a\":1}")>>),
     ValueBulk(<<ValueData("$"), ValueData("5")>>),
     ValueBulk(<<ValueData("$"), ValueData("plain")>>),
     ValueBulk(<<ValueData("tags")>>),
     RedisNil}

\* groups with a key and a score as the store writes them and any field
\* list, a group whose key is nil and one whose score is not a number
ReplyGroups ==
    {<<k, ValueData("0.9"), f>> : k \in ReplyKeys, f \in ReplyFields}
        \cup {<<RedisNil, ValueData("0.9"),
                ValueBulk(<<ValueData("content"), ValueData("\"A\"")>>)>>,
              <<ValueData("doc:2"), ValueData("high"),
                ValueBulk(<<ValueData("content"), ValueData("\"A\"")>>)>>}

RECURSIVE Flatten(_)
Flatten(groups) ==
    IF groups = <<>> THEN <<>> ELSE Head(groups) \o Flatten(Tail(groups))

\* the replies: a first element, up to MaxGroups groups, and possibly the
\* last elements missing
Replies ==
    UNION {{SubSeq(<<first>> \o Flatten(gs), 1, 1 + 3 * Len(gs) - cut) :
               first \in {ValueInt(Len(gs)), RedisNil}, cut \in {0, 1}} :
           gs \in UNION {[1..k -> ReplyGroups] : k \in 0..MaxGroups}}

InitDec == NewDec(<<ValueInt(0)>>)

\* ------------------------------------------------------------------------
\* The search index in the store: create and advanced_search as commands
\* (src/tools/search.rs)
\* ------------------------------------------------------------------------
\* most calls of create and advanced_search in one run
MaxIndexOps == 3

IndexNames == {"knowledge", "tasks"}

\* exists: the indexes the store holds; log is history: every call made,
\* whether its command reached the store, and how it ended
InitIdx == [exists |-> [n \in IndexNames |-> FALSE], log |-> <<>>]

CreateOutcomes == {"err_conn", "err_create", "ok"}
SearchOutcomes == {"err_conn", "reply"}

\* create that gives up when the drop fails
create_after_drop_onlyIfDropped(drop_ok) == drop_ok

\* the result of FT.DROPINDEX is bound to `_` and never inspected
create_after_drop(drop_ok) == TRUE

\* SearchIndex::create: a connection, FT.DROPINDEX with its result ignored,
\* then FT.CREATE, whose error is the error of the call.  The store drops
\* only an index it holds and creates only an index it does not hold.  cmds
\* is history: the commands sent, in order.
IndexCreate(name, outcome) ==
    /\ Len(idx.log) < MaxIndexOps
    /\ \E drop_ok \in BOOLEAN :
          /\ drop_ok => (outcome # "err_conn" /\ idx.exists[name])
          /\ outcome = "ok" => (drop_ok \/ ~idx.exists[name])
          /\ LET conn == outcome # "err_conn"
                 creates == conn /\ create_after_drop(drop_ok)
                 dropped == [idx.exists EXCEPT
                               ![name] = IF drop_ok THEN FALSE ELSE @]
             IN  idx' = [exists |-> IF ~conn THEN idx.exists
                                    ELSE IF creates /\ outcome = "ok"
                                    THEN [dropped EXCEPT ![name] = TRUE]
                                    ELSE dropped,
                         log |-> Append(idx.log,
                                   [op |-> "create", name |-> name,
                                    issued |-> conn,
                                    ok |-> creates /\ outcome = "ok",
                                    drop_ok |-> drop_ok,
                                    cmds |-> IF ~conn THEN <<>>
                                             ELSE IF creates
                                             THEN <<"FT.DROPINDEX",
                                                    "FT.CREATE">>
                                             ELSE <<"FT.DROPINDEX">>,
                                    ret |-> IF creates /\ outcome = "ok"
                                            THEN "ok" ELSE "err"])]
    /\ UNCHANGED <<qb, dec, lock, ltasks>>
    /\ UNCHANGED <<cacheVars, now, runVars, sideVars, extraVars>>

\* SearchIndex::advanced_search up to the reply: a connection, then FT.SEARCH
IndexSearch(name, outcome) ==
    /\ Len(idx.log) < MaxIndexOps
    /\ idx' = [idx EXCEPT
                 !.log = Append(@, [op |-> "search", name |-> name,
                                    issued |-> outcome # "err_conn",
                                    ok |-> outcome # "err_conn"
                                           /\ idx.exists[name]])]
    /\ UNCHANGED <<qb, dec, lock, ltasks>>
    /\ UNCHANGED <<cacheVars, now, runVars, sideVars, extraVars>>

\* ------------------------------------------------------------------------
\* ResponseCache::get and ::set step by step, under the lock of the cache
\* (src/cache.rs)
\* ------------------------------------------------------------------------
\* tasks calling the cache at once
NumLockTasks == 2

\* a write lock that does not exclude other holders
can_write_lock_shared(l) == TRUE

\* RwLock::write: granted when nobody holds the lock
can_write_lock(l) == l = 0

\* a call of get (value unused) or set; snap, h0, m0, e0 and at are history:
\* the cache and the counters when the lock was granted, and the time of
\* the comparison with expires_at
NewLockTask(op, key, value) ==
    [op |-> op, key |-> key, value |-> value, pc |-> "wait", ret |-> None,
     snap |-> <<>>, h0 |-> 0, m0 |-> 0, e0 |-> 0, at |-> 0]

InCritical(t) == t.pc \notin {"wait", "done"}

\* self.cache.write().await
LockAcquire(i) ==
    /\ ltasks[i].pc = "wait"
    /\ can_write_lock(lock)
    /\ lock' = i
    /\ ltasks' = [ltasks EXCEPT
                    ![i].pc = IF ltasks[i].op = "get" THEN "lookup" ELSE "put",
                    ![i].snap = cache, ![i].h0 = hits, ![i].m0 = misses,
                    ![i].e0 = evictions]
    /\ UNCHANGED <<cacheVars, now, runVars, sideVars, extraVars, qb, dec, idx>>

\* get: cache.get(key) and the comparison of expires_at
GetLookup(i) ==
    /\ ltasks[i].pc = "lookup"
    /\ LET g == LruCache_get(cache, ltasks[i].key) IN
       /\ cache' = g.cache
       /\ ltasks' = [ltasks EXCEPT
              ![i].at = now,
              ![i].ret = IF g.entry # None /\ g.entry[1].expires_at > now
                         THEN Some(g.entry[1].value) ELSE None,
              ![i].pc = IF g.entry # None /\ g.entry[1].expires_at > now
                        THEN "record_hit"
                        ELSE IF g.entry # None THEN "pop"
                                                ELSE "record_miss"]
    /\ UNCHANGED <<hits, misses, evictions, lastOp, shadow, clock>>
    /\ UNCHANGED <<now, runVars, sideVars, extraVars, qb, dec, idx, lock>>

\* get: cache.pop(key) of the expired entry
GetPop(i) ==
    /\ ltasks[i].pc = "pop"
    /\ cache' = LruCache_pop(cache, ltasks[i].key)
    /\ ltasks' = [ltasks EXCEPT ![i].pc = "record_eviction"]
    /\ UNCHANGED <<hits, misses, evictions, lastOp, shadow, clock>>
    /\ UNCHANGED <<now, runVars, sideVars, extraVars, qb, dec, idx, lock>>

\* set: cache.put(key, entry)
SetPut(i) ==
    /\ ltasks[i].pc = "put"
    /\ LET p == LruCache_put(cache, ltasks[i].key,
                    [key |-> ltasks[i].key, value |-> ltasks[i].value,
                     expires_at |-> now + Ttl],
                    CacheCapacity) IN
       /\ cache' = p.cache
       /\ ltasks' = [ltasks EXCEPT
              ![i].at = now,
              ![i].pc = IF p.old # None THEN "record_replaced"
                                        ELSE "release"]
    /\ UNCHANGED <<hits, misses, evictions, lastOp, shadow, clock>>
    /\ UNCHANGED <<now, runVars, sideVars, extraVars, qb, dec, idx, lock>>

\* record_hit, record_eviction, record_miss: one fetch_add each
Record(i) ==
    /\ ltasks[i].pc \in {"record_hit", "record_eviction", "record_miss",
                          "record_replaced"}
    /\ hits' = IF ltasks[i].pc = "record_hit" THEN hits + 1 ELSE hits
    /\ misses' = IF ltasks[i].pc = "record_miss" THEN misses + 1 ELSE misses
    /\ evictions' = IF ltasks[i].pc \in {"record_eviction", "record_replaced"}
                    THEN evictions + 1 ELSE evictions
    /\ ltasks' = [ltasks EXCEPT
                    ![i].pc = IF ltasks[i].pc = "record_eviction"
                              THEN "record_miss" ELSE "release"]
    /\ UNCHANGED <<cache, lastOp, shadow, clock>>
    /\ UNCHANGED <<now, runVars, sideVars, extraVars, qb, dec, idx, lock>>

\* the guard goes out of scope when the call returns
LockRelease(i) ==
    /\ ltasks[i].pc = "release"
    /\ lock' = IF lock = i THEN 0 ELSE lock
    /\ ltasks' = [ltasks EXCEPT ![i].pc = "done"]
    /\ UNCHANGED <<cacheVars, now, runVars, sideVars, extraVars, qb, dec, idx>>

\* time passes while the tasks run
LockTick ==
    /\ Tick
    /\ UNCHANGED <<cacheVars, runVars, sideVars, moreVars, extraVars>>

\* the search subsystem at rest and the lock free
InitMoreVars ==
    /\ qb = InitQb
    /\ dec = InitDec
    /\ idx = InitIdx
    /\ lock = 0
    /\ ltasks = <<>>

\* ------------------------------------------------------------------------
\* The connection pool and its leases: request tasks and the health check
\* (src/utils.rs)
\* ------------------------------------------------------------------------
\* max_size of the pool (32 in utils.rs:20), scaled down
PoolMaxSize == 2
\* request tasks that need a connection at the same time
NumLeaseTasks == 2

\* a pool that hands out a connection whatever is already leased
pool_has_room_always(n) == TRUE

\* Pool::get grants a connection while fewer than max_size are leased
pool_has_room(n) == n < PoolMaxSize

\* a task on entry to get_connection; held says whether it owns a
\* Connection object; refused is history: a pool.get() of it found the pool
\* exhausted
NewLeaseTask ==
    [pc |-> "get", retries |-> Retries, held |-> FALSE, ret |-> "",
     refused |-> FALSE]

\* the health check of RedisManager::new: idle, or holding a connection
InitHealth == [held |-> FALSE]

\* self.pool.get().await inside get_connection: a connection, or an error
\* (no connection can be created, or the wait for a free one timed out)
LeaseGet(i) ==
    /\ ptasks.tasks[i].pc = "get"
    /\ \E granted \in BOOLEAN :
          /\ granted => pool_has_room(in_use)
          /\ IF granted
             THEN /\ in_use' = in_use + 1
                  /\ ptasks' = [ptasks EXCEPT
                                  !.tasks[i].held = TRUE,
                                  !.tasks[i].pc = "ping"]
             ELSE LET arm == pool_get_err_arm(ptasks.tasks[i].retries) IN
                  /\ UNCHANGED in_use
                  /\ ptasks' = [ptasks EXCEPT
                        !.tasks[i].refused = @ \/ ~pool_has_room(in_use),
                        !.tasks[i].retries = IF arm.ret THEN @ ELSE @ - 1,
                        !.tasks[i].ret = IF arm.ret THEN "err_conn" ELSE @,
                        !.tasks[i].pc = IF arm.ret THEN "done" ELSE "get"]
    /\ UNCHANGED rd
    /\ UNCHANGED <<cacheVars, now, runVars, sideVars, moreVars>>

\* the PING of get_connection: on Ok the connection is returned to the
\* caller, on Err it is dropped at the end of the arm and the call retries;
\* pings fail only while retries are left, which keeps the counter bounded
LeasePing(i) ==
    /\ ptasks.tasks[i].pc = "ping"
    /\ \E ok \in BOOLEAN :
          /\ ~ok => ptasks.tasks[i].retries > 0
          /\ IF ping_arm(ok).ret
             THEN /\ ptasks' = [ptasks EXCEPT !.tasks[i].pc = "op"]
                  /\ UNCHANGED in_use
             ELSE /\ in_use' = in_use - 1
                  /\ ptasks' = [ptasks EXCEPT
                                  !.tasks[i].held = FALSE,
                                  !.tasks[i].retries = @ - 1,
                                  !.tasks[i].pc = "get"]
    /\ UNCHANGED rd
    /\ UNCHANGED <<cacheVars, now, runVars, sideVars, moreVars>>

\* the tool that called get_connection returns, with Ok or through ?, or
\* its task panics: the local conn is dropped and goes back to the pool
LeaseOp(i) ==
    /\ ptasks.tasks[i].pc = "op"
    /\ \E outcome \in {"ok", "err_op", "panic"} :
          ptasks' = [ptasks EXCEPT
                       !.tasks[i].held = FALSE,
                       !.tasks[i].ret = outcome,
                       !.tasks[i].pc = "done"]
    /\ in_use' = in_use - 1
    /\ UNCHANGED rd
    /\ UNCHANGED <<cacheVars, now, runVars, sideVars, moreVars>>

\* health_check: pool.get().await? of the background task
HealthGet ==
    /\ ~ptasks.health.held
    /\ pool_has_room(in_use)
    /\ in_use' = in_use + 1
    /\ ptasks' = [ptasks EXCEPT !.health.held = TRUE]
    /\ UNCHANGED rd
    /\ UNCHANGED <<cacheVars, now, runVars, sideVars, moreVars>>

\* health_check returns after its PING, and conn is dropped
HealthDone ==
    /\ ptasks.health.held
    /\ in_use' = in_use - 1
    /\ ptasks' = [ptasks EXCEPT !.health.held = FALSE]
    /\ UNCHANGED rd
    /\ UNCHANGED <<cacheVars, now, runVars, sideVars, moreVars>>

\* ------------------------------------------------------------------------
\* MCPServer::run: the read of a line racing the batch timeout
\* (src/server.rs)
\* ------------------------------------------------------------------------
\* lines of several tokens each, so that a line can arrive in pieces
RaceLines == {<<"a", "b">>, <<"c", "d", "e">>, <<"f">>}

\* the pending read_line future: got are the bytes it has taken from stdin
\* for a line whose newline has not arrived yet; received is history: the
\* bytes of the unfinished line taken from stdin by any read so far;
\* cancelled is history: a pending read that had taken bytes was dropped
InitRd == [got |-> <<>>, received |-> <<>>, cancelled |-> FALSE]

\* the contents of line_buffer after a read_line future that had taken
\* bytes is dropped: tokio gives no guarantee; the bytes are appended to
\* the buffer, or the buffer is left empty
AfterCancel(buf, got) == {buf \o got, <<>>}

\* part of the next line arrives and the pending read takes it
RacePartial ==
    /\ pc = "collect"
    /\ Len(batch_buffer) < MaxBatchSize
    /\ input # <<>>
    /\ Len(Head(input)) > 1
    /\ input' = <<Tail(Head(input))>> \o Tail(input)
    /\ rd' = [rd EXCEPT !.got = Append(@, Head(Head(input))),
                        !.received = Append(@, Head(Head(input)))]
    /\ UNCHANGED <<eof_seen, line_buffer, batch_buffer, pc, handles,
                   responses, response_buffer, stdout, accepted, offered,
                   overtaken, raw_accepted>>
    /\ UNCHANGED <<in_use, ptasks>>
    /\ UNCHANGED <<cacheVars, now, sideVars, moreVars>>

\* the rest of the line and its newline arrive: read_line returns Ok(n)
RaceComplete ==
    /\ pc = "collect"
    /\ Len(batch_buffer) < MaxBatchSize
    /\ input # <<>>
    /\ LET raw == rd.got \o Head(input)
           buf == line_buffer \o raw \o <<"\n">>
           n == Bytes(raw) + 1
           line == Trim(buf)
       IN
       /\ input' = Tail(input)
       /\ rd' = [rd EXCEPT !.got = <<>>, !.received = <<>>]
       /\ IF n > MaxRequestSize
          THEN /\ line_buffer' = buf
               /\ UNCHANGED <<batch_buffer, accepted, raw_accepted>>
          ELSE /\ line_buffer' = <<>>
               /\ IF line # <<>>
                  THEN /\ batch_buffer' = Append(batch_buffer, line)
                       /\ accepted' = Append(accepted, line)
                       /\ raw_accepted' = Append(raw_accepted, raw)
                  ELSE UNCHANGED <<batch_buffer, accepted, raw_accepted>>
    /\ UNCHANGED <<eof_seen, pc, handles, responses, response_buffer, stdout,
                   offered, overtaken>>
    /\ UNCHANGED <<in_use, ptasks>>
    /\ UNCHANGED <<cacheVars, now, sideVars, moreVars>>

\* the timeout branch of select! completes first: the read_line future is
\* dropped and the inner loop is left
RaceTimeout ==
    /\ pc = "collect"
    /\ Len(batch_buffer) < MaxBatchSize
    /\ IF rd.got = <<>>
       THEN UNCHANGED <<line_buffer, rd>>
       ELSE /\ line_buffer' \in AfterCancel(line_buffer, rd.got)
            /\ rd' = [rd EXCEPT !.got = <<>>, !.cancelled = TRUE]
    /\ Break
    /\ UNCHANGED <<input, eof_seen, response_buffer, stdout, accepted,
                   offered, overtaken, raw_accepted>>
    /\ UNCHANGED <<in_use, ptasks>>
    /\ UNCHANGED <<cacheVars, now, sideVars, moreVars>>

\* the pool with nothing leased and no read pending
InitExtraVars ==
    /\ in_use = 0
    /\ ptasks = [tasks |-> <<>>, health |-> InitHealth]
    /\ rd = InitRd

\* ------------------------------------------------------------------------
\* The server
\* ------------------------------------------------------------------------
\* the lines that can arrive on stdin: tool calls, with and without
\* surrounding blanks, a blank line, a plain request and oversized texts
RawLines ==
    {<<"callA">>, <<"callB">>, <<" ", "callA", " ">>, <<" ">>, <<"list">>,
     <<"bigjunk">>, <<"hugejunk">>}

\* one line of every kind handle_request tells apart
DispatchLines ==
    {<<t>> : t \in JsonTexts \ {"callB", "callC"}} \cup {<<"garbage">>}

\* calls of a tool that uses the store only, of a Trello tool that tests the
\* status of the remote reply and of one that does not
ToolLines == {<<"callA">>, <<"callB">>, <<"callC">>}

SeqsUpTo(S, n) == UNION {[1..k -> S] : k \in 0..n}

InitCacheVars ==
    /\ cache = <<>>
    /\ now = 0
    /\ hits = 0
    /\ misses = 0
    /\ evictions = 0
    /\ lastOp = NoOp
    /\ shadow = <<>>
    /\ clock = 0

InitRunVars ==
    /\ eof_seen = FALSE
    /\ line_buffer = <<>>
    /\ batch_buffer = <<>>
    /\ pc = "collect"
    /\ handles = <<>>
    /\ responses = <<>>
    /\ response_buffer = ResponseBuffer_new
    /\ stdout = <<>>
    /\ accepted = <<>>
    /\ offered = <<>>
    /\ overtaken = FALSE
    /\ raw_accepted = <<>>

Init ==
    /\ InitCacheVars
    /\ InitRunVars
    /\ InitSideVars
    /\ InitMoreVars
    /\ InitExtraVars
    /\ input \in SeqsUpTo(RawLines, MaxInput)

Next ==
    \/ ReadLine
    \/ ReadEof
    \/ Timeout
    \/ BatchFull
    \/ \E i \in 1..Len(handles) : Lookup(i)
    \/ \E i \in 1..Len(handles) : ToolRun(i)
    \/ TaskTick
    \/ Await
    \/ Offer
    \/ LoopEnd

vars == <<cache, now, hits, misses, evictions, lastOp, shadow, clock,
          input, eof_seen, line_buffer, batch_buffer, pc, handles, responses,
          response_buffer, stdout, accepted, offered, overtaken,
          raw_accepted, gc, conn_success, conn_failures, redis, calls,
          qb, dec, idx, lock, ltasks, in_use, ptasks, rd>>

Spec == Init /\ [][Next]_vars

\* ------------------------------------------------------------------------
\* run under the scheduling of the runtime: run itself is never suspended
\* for good, its reads, the timer and its writes complete, and every spawned
\* task is polled until it completes
\* ------------------------------------------------------------------------
LiveLines == {<<"callA">>, <<" ">>}

InitLive ==
    /\ InitCacheVars
    /\ InitRunVars
    /\ InitSideVars
    /\ InitMoreVars
    /\ InitExtraVars
    /\ input \in SeqsUpTo(LiveLines, MaxInput)

\* the steps of run itself
RunSteps ==
    ReadLine \/ ReadEof \/ Timeout \/ BatchFull \/ Await \/ Offer \/ LoopEnd

\* the steps of the spawned request tasks
TaskSteps ==
    \E i \in 1..Len(handles) : Lookup(i) \/ ToolRun(i)

SpecLive ==
    InitLive /\ [][Next]_vars /\ WF_vars(RunSteps) /\ WF_vars(TaskSteps)

InitDispatch ==
    /\ InitCacheVars
    /\ InitRunVars
    /\ InitSideVars
    /\ InitMoreVars
    /\ InitExtraVars
    /\ input \in SeqsUpTo(DispatchLines, MaxInput)

SpecDispatch == InitDispatch /\ [][Next]_vars

InitTools ==
    /\ InitCacheVars
    /\ InitRunVars
    /\ InitSideVars
    /\ InitMoreVars
    /\ InitExtraVars
    /\ input \in SeqsUpTo(ToolLines, MaxInput)

SpecTools == InitTools /\ [][Next]_vars

\* ------------------------------------------------------------------------
\* The cache on its own: any sequence of get and set calls while time passes
\* ------------------------------------------------------------------------
\* request lines used as keys, and responses used as values
CacheKeys == {<<"k1">>, <<"k2">>, <<"k3">>}
CacheValues == {"v1", "v2"}

Get(key) ==
    /\ clock < MaxOps
    /\ DoGet(key)
    /\ UNCHANGED now
    /\ UNCHANGED runVars
    /\ UNCHANGED sideVars
    /\ UNCHANGED moreVars
    /\ UNCHANGED extraVars

Set(key, value) ==
    /\ clock < MaxOps
    /\ DoSet(key, value)
    /\ UNCHANGED now
    /\ UNCHANGED runVars
    /\ UNCHANGED sideVars
    /\ UNCHANGED moreVars
    /\ UNCHANGED extraVars

CacheTick ==
    /\ Tick
    /\ UNCHANGED cacheVars
    /\ UNCHANGED runVars
    /\ UNCHANGED sideVars
    /\ UNCHANGED moreVars
    /\ UNCHANGED extraVars

InitCache ==
    /\ InitCacheVars
    /\ InitRunVars
    /\ InitSideVars
    /\ InitMoreVars
    /\ InitExtraVars
    /\ input = <<>>

NextCache ==
    \/ \E key \in CacheKeys : Get(key)
    \/ \E key \in CacheKeys, value \in CacheValues : Set(key, value)
    \/ CacheTick

SpecCache == InitCache /\ [][NextCache]_vars

\* ------------------------------------------------------------------------
\* One call of get_connection against a pool and connections that can fail
\* ------------------------------------------------------------------------
InitPool ==
    /\ InitCacheVars
    /\ InitRunVars
    /\ InitSideVars
    /\ InitMoreVars
    /\ InitExtraVars
    /\ input = <<>>

NextPool ==
    \/ PoolGet
    \/ Ping
    \/ Backoff

SpecPool == InitPool /\ [][NextPool]_vars

\* ------------------------------------------------------------------------
\* Concurrent calls of take_trello_task against one store
\* ------------------------------------------------------------------------
InitTake ==
    /\ InitCacheVars
    /\ InitRunVars
    /\ input = <<>>
    /\ gc = InitGc
    /\ conn_success = 0
    /\ conn_failures = 0
    /\ redis = InitRedis
    /\ calls \in [1..NumCalls -> {NewCall(a, c) : a \in Agents, c \in Cards}]
    /\ InitMoreVars
    /\ InitExtraVars

NextTake ==
    \/ \E i \in 1..Len(calls) : TakeConn(i)
    \/ \E i \in 1..Len(calls) : TakeGet(i)
    \/ \E i \in 1..Len(calls) : TakeSetEx(i)
    \/ \E i \in 1..Len(calls) : TakeSadd(i)
    \/ \E i \in 1..Len(calls) : TakeComment(i)

SpecTake == InitTake /\ [][NextTake]_vars

\* ------------------------------------------------------------------------
\* advanced_search building its query, for every SearchParams
\* ------------------------------------------------------------------------
SearchParamsSet ==
    {[query |-> q, filters |-> fs, numeric_filters |-> ns,
      fuzzy_distance |-> fd] :
        q \in Queries, fd \in FuzzyDistances,
        fs \in SeqsUpTo(TagFilters, MaxFilters),
        ns \in SeqsUpTo(NumericFilters, MaxFilters)}

InitQuery ==
    /\ InitCacheVars
    /\ InitRunVars
    /\ InitSideVars
    /\ input = <<>>
    /\ qb \in {NewQb(params) : params \in SearchParamsSet}
    /\ dec = InitDec
    /\ idx = InitIdx
    /\ lock = 0
    /\ ltasks = <<>>
    /\ InitExtraVars

NextQuery ==
    \/ QText
    \/ QTag
    \/ QNumeric
    \/ QBuild

SpecQuery == InitQuery /\ [][NextQuery]_vars

\* ------------------------------------------------------------------------
\* advanced_search decoding a reply, for every reply
\* ------------------------------------------------------------------------
InitDecode ==
    /\ InitCacheVars
    /\ InitRunVars
    /\ InitSideVars
    /\ input = <<>>
    /\ qb = InitQb
    /\ dec \in {NewDec(reply) : reply \in Replies}
    /\ idx = InitIdx
    /\ lock = 0
    /\ ltasks = <<>>
    /\ InitExtraVars

NextDecode ==
    \/ DecodeTotal
    \/ DecodeGroup
    \/ DecodeReturn

SpecDecode == InitDecode /\ [][NextDecode]_vars

\* ------------------------------------------------------------------------
\* Callers of create and advanced_search, in any order
\* ------------------------------------------------------------------------
NextIndex ==
    \/ \E name \in IndexNames, outcome \in CreateOutcomes :
          IndexCreate(name, outcome)
    \/ \E name \in IndexNames, outcome \in SearchOutcomes :
          IndexSearch(name, outcome)

SpecIndex == InitCache /\ [][NextIndex]_vars

\* ------------------------------------------------------------------------
\* Tasks calling get and set of one cache at once
\* ------------------------------------------------------------------------
LockKeys == {<<"k1">>, <<"k2">>}

\* the caches a run of sets up to time t leaves behind
CachesAt(t) ==
    {c \in SeqsUpTo({[key |-> k, value |-> "v1", expires_at |-> e] :
                        k \in LockKeys, e \in Ttl..(t + Ttl)},
                    CacheCapacity) :
        \A i, j \in 1..Len(c) : i # j => c[i].key # c[j].key}

LockCalls ==
    {NewLockTask("get", k, "") : k \in LockKeys}
        \cup {NewLockTask("set", k, "v2") : k \in LockKeys}

InitLock ==
    /\ InitRunVars
    /\ InitSideVars
    /\ input = <<>>
    /\ now \in 0..MaxTime
    /\ cache \in CachesAt(now)
    /\ hits = 0
    /\ misses = 0
    /\ evictions = 0
    /\ lastOp = NoOp
    /\ shadow = <<>>
    /\ clock = 0
    /\ qb = InitQb
    /\ dec = InitDec
    /\ idx = InitIdx
    /\ lock = 0
    /\ ltasks \in [1..NumLockTasks -> LockCalls]
    /\ InitExtraVars

NextLock ==
    \/ \E i \in 1..Len(ltasks) : LockAcquire(i)
    \/ \E i \in 1..Len(ltasks) : GetLookup(i)
    \/ \E i \in 1..Len(ltasks) : GetPop(i)
    \/ \E i \in 1..Len(ltasks) : SetPut(i)
    \/ \E i \in 1..Len(ltasks) : Record(i)
    \/ \E i \in 1..Len(ltasks) : LockRelease(i)
    \/ LockTick

SpecLock == InitLock /\ [][NextLock]_vars

\* ------------------------------------------------------------------------
\* The request tasks of a batch leasing connections from one pool
\* ------------------------------------------------------------------------
InitLease ==
    /\ InitCacheVars
    /\ InitRunVars
    /\ InitSideVars
    /\ InitMoreVars
    /\ input = <<>>
    /\ in_use = 0
    /\ ptasks = [tasks |-> [i \in 1..NumLeaseTasks |-> NewLeaseTask],
                 health |-> InitHealth]
    /\ rd = InitRd

NextLease ==
    \/ \E i \in 1..Len(ptasks.tasks) : LeaseGet(i)
    \/ \E i \in 1..Len(ptasks.tasks) : LeasePing(i)
    \/ \E i \in 1..Len(ptasks.tasks) : LeaseOp(i)
    \/ HealthGet
    \/ HealthDone

SpecLease == InitLease /\ [][NextLease]_vars

\* ------------------------------------------------------------------------
\* run with lines that arrive in pieces while the batch timeout can fire
\* ------------------------------------------------------------------------
InitRace ==
    /\ InitCacheVars
    /\ InitRunVars
    /\ InitSideVars
    /\ InitMoreVars
    /\ InitExtraVars
    /\ input \in SeqsUpTo(RaceLines, MaxInput)

NextRace ==
    \/ RacePartial
    \/ RaceComplete
    \/ RaceTimeout
    \/ ReadEof
    \/ BatchFull
    \/ \E i \in 1..Len(handles) : Lookup(i)
    \/ Await
    \/ Offer
    \/ LoopEnd

SpecRace == InitRace /\ [][NextRace]_vars

\* ------------------------------------------------------------------------
\* Claims about the cache
\* ------------------------------------------------------------------------
\* the entry written by the last set of key is still live at the last call
Live(key) ==
    /\ key \in DOMAIN shadow
    /\ ~shadow[key].dropped
    /\ lastOp.at < shadow[key].at + Ttl

\* the entry written by the last set of key has expired at the last call
\* and was not pushed out by capacity
Expired(key) ==
    /\ key \in DOMAIN shadow
    /\ ~shadow[key].dropped
    /\ lastOp.at >= shadow[key].at + Ttl

\* C4: a get(k) that follows set(k, v) before the TTL has elapsed, with no
\* other set of k and no capacity eviction of k in between, returns v and
\* adds one to the hit counter and nothing to the miss and eviction counters.
C4_SetThenGetHits ==
    (lastOp.op = "get" /\ Live(lastOp.key)) =>
        /\ lastOp.ret = Some(shadow[lastOp.key].val)
        /\ lastOp.dh = 1
        /\ lastOp.dm = 0
        /\ lastOp.de = 0

C4_Witness ==
    /\ lastOp.op = "get"
    /\ Live(lastOp.key)
    /\ lastOp.at > shadow[lastOp.key].at
    /\ hits = 1

\* C5: the first get of an expired entry returns nothing, removes the entry
\* and adds one to the eviction and miss counters; every later get of the
\* key without a new set returns nothing and adds one to the miss counter
\* only.
C5_ExpiredGetEvictsOnce ==
    (lastOp.op = "get" /\ Expired(lastOp.key)) =>
        /\ lastOp.ret = None
        /\ lastOp.key \notin Keys(cache)
        /\ lastOp.dh = 0
        /\ lastOp.dm = 1
        /\ lastOp.de = (IF shadow[lastOp.key].expiredGets = 1 THEN 1 ELSE 0)

C5_Witness ==
    /\ lastOp.op = "get"
    /\ Expired(lastOp.key)
    /\ shadow[lastOp.key].expiredGets = 2
    /\ evictions = 1
    /\ misses = 2

\* C6: a set of a new key into a full cache removes the least recently used
\* entry and adds exactly one to the eviction counter; a set of a new key
\* below capacity leaves the eviction counter alone.
C6_CapacityEvictionCounted ==
    (lastOp.op = "set" /\ lastOp.wasNew) =>
        IF lastOp.wasFull
        THEN lastOp.removed = lastOp.lru /\ lastOp.de = 1
        ELSE lastOp.removed = {} /\ lastOp.de = 0

\* what the code does instead: the least recently used entry goes, uncounted
C6_CapacityEvictionSilent ==
    (lastOp.op = "set" /\ lastOp.wasNew) =>
        /\ lastOp.de = 0
        /\ lastOp.removed = (IF lastOp.wasFull THEN lastOp.lru ELSE {})
        /\ Cardinality(lastOp.removed) = (IF lastOp.wasFull THEN 1 ELSE 0)

\* ------------------------------------------------------------------------
\* Claims about the server
\* ------------------------------------------------------------------------
\* the response of the task spawned for slot j, as run pushes it
SlotResponse(j) == collect_response(handles[j].out[1])

\* the items written to stdout so far, in order
RECURSIVE Items(_)
Items(chunks) ==
    IF chunks = <<>> THEN <<>> ELSE Head(chunks).items \o Items(Tail(chunks))

\* C1: whatever the order in which the tasks of a batch complete, the i-th
\* response pushed to responses, and then offered to the accumulator, is the
\* response of the task spawned for the i-th submitted line.
C1_ResponsesInSubmissionOrder ==
    /\ \A j \in 1..Len(handles) : handles[j].line = accepted[j]
    /\ pc = "await" =>
          /\ Len(responses) <= Len(handles)
          /\ \A j \in 1..Len(responses) :
                handles[j].pc = "done" /\ responses[j] = SlotResponse(j)
    /\ (pc \in {"buffer", "done"} /\ handles # <<>>) =>
          offered \o responses = [j \in 1..Len(handles) |-> SlotResponse(j)]

C1_Witness ==
    /\ pc = "done"
    /\ Len(handles) = 2
    /\ overtaken
    /\ Len(offered) = 2
    /\ offered[1] # offered[2]

\* C2: when run returns, every line accepted into a batch has exactly one
\* response on stdout and the accumulator holds nothing.
C2_AllResponsesWritten ==
    pc = "done" =>
        /\ Len(Items(stdout)) = Len(accepted)
        /\ response_buffer.buffer = <<>>

\* C3: run returns only after end-of-stream has been observed, with no line
\* of the input left unread.
C3_ExitOnlyAtEof ==
    pc = "done" => (eof_seen /\ input = <<>>)

\* C7: a tools/call line looked up while the entry written by an earlier
\* successful request of the same line is still in the cache and within its
\* ttl gets the response of that earlier request, and the hit counter goes up
\* by one.
C7_RepeatedCallServedFromCache ==
    \A j \in 1..Len(handles) :
        handles[j].from # 0 =>
            /\ handles[j].pc = "done"
            /\ handles[j].hit
            /\ handles[j].dh = 1
            /\ \E w \in 1..Len(handles) :
                  /\ w # j
                  /\ handles[w].setClock = handles[j].from
                  /\ handles[w].line = handles[j].line
                  /\ handles[w].wrote
                  /\ handles[j].out = handles[w].out

C7_Witness ==
    /\ pc = "done"
    /\ Len(handles) = 2
    /\ handles[2].from # 0
    /\ handles[2].line = <<"callA">>
    /\ hits = 1
    /\ Len(offered) = 2
    /\ offered[1] = offered[2]

\* the request a line parses to, when it parses
Parsed(line) == from_str(Trim(line))

NoStringMethod(line) ==
    /\ Parsed(line) # None
    /\ \/ Parsed(line)[1].method = None
       \/ ~Parsed(line)[1].method[1].isStr

\* C8: a line that parses as JSON, is not served from the cache and has no
\* string-valued method gets an error response with code -32600 and the id
\* of the request, and no operation is dispatched.
C8_MissingMethodIsInvalidRequest ==
    \A j \in 1..Len(handles) :
        (handles[j].pc # "lookup" /\ ~handles[j].hit
            /\ NoStringMethod(handles[j].line)) =>
            /\ handles[j].pc = "done"
            /\ handles[j].out # Some(JoinErr)
            /\ LET v == handles[j].out[1][2][1] IN
               /\ "error" \in DOMAIN v
               /\ "result" \notin DOMAIN v
               /\ v.error.code = -32600
               /\ v.id = json_id(Parsed(handles[j].line)[1].id)
            /\ handles[j].ran = None
            /\ handles[j].conn = 0
            /\ ~handles[j].wrote

C8_Witness ==
    /\ pc = "done"
    /\ \E j \in 1..Len(handles) :
          /\ handles[j].line = <<"nummeth">>
          /\ handles[j].out[1][2][1].id = "2"
    /\ \E j \in 1..Len(handles) :
          /\ handles[j].line = <<"nometh">>
          /\ handles[j].out[1][2][1].id = "1"

UnknownToolCall(line) ==
    /\ Parsed(line) # None
    /\ Parsed(line)[1].method = Some(JsonString("tools/call"))
    /\ Parsed(line)[1].params # None
    /\ Parsed(line)[1].params[1].name # None
    /\ Parsed(line)[1].params[1].arguments # None
    /\ \A i \in 1..Len(ToolNames) :
          ToolNames[i] # Parsed(line)[1].params[1].name[1]

\* C9: a tools/call whose params hold a name and arguments, the name being
\* none of the nine tools, gets an error response with code -32601; no
\* connection is acquired, no operation runs and nothing is written to the
\* cache.
C9_UnknownToolIsMethodNotFound ==
    \A j \in 1..Len(handles) :
        (handles[j].pc # "lookup" /\ UnknownToolCall(handles[j].line)) =>
            /\ handles[j].pc = "done"
            /\ ~handles[j].hit
            /\ handles[j].out # Some(JoinErr)
            /\ LET v == handles[j].out[1][2][1] IN
               /\ "error" \in DOMAIN v
               /\ v.error.code = -32601
            /\ handles[j].ran = None
            /\ handles[j].conn = 0
            /\ ~handles[j].wrote
            /\ handles[j].line \notin Keys(cache)
            /\ handles[j].line \notin DOMAIN shadow

C9_Witness ==
    /\ pc = "done"
    /\ Len(handles) = 2
    /\ handles[1].line = <<"callunk">>
    /\ handles[2].line = <<"callunk">>
    /\ misses = 2

ExactlyOne(v) == ("result" \in DOMAIN v) # ("error" \in DOMAIN v)

\* C10: every response, whether produced by handle_request, taken from the
\* cache, or substituted by run for a task that returned None, failed to
\* serialize or failed, has exactly one of the members result and error.
C10_ExactlyOneOfResultAndError ==
    /\ \A j \in 1..Len(handles) :
          (handles[j].out # None /\ handles[j].out # Some(JoinErr)) =>
              ExactlyOne(handles[j].out[1][2][1])
    /\ \A j \in 1..Len(responses) : ExactlyOne(responses[j].text)
    /\ \A j \in 1..Len(offered) : ExactlyOne(offered[j].text)
    /\ \A j \in 1..Len(cache) : ExactlyOne(cache[j].value)
    /\ \A j \in 1..Len(Items(stdout)) : ExactlyOne(Items(stdout)[j].text)
    /\ ExactlyOne(collect_response(JoinOk(None)).text)
    /\ ExactlyOne(collect_response(JoinErr).text)
    /\ ExactlyOne(handle_request_miss(<<" ">>).resp[1])
    /\ ExactlyOne(internal_error_response("Internal error"))

C10_Witness ==
    /\ pc = "done"
    /\ Len(offered) = 2
    /\ handles[1].line = <<"garbage">>
    /\ "error" \in DOMAIN offered[1].text
    /\ handles[2].line = <<"callA">>
    /\ handles[2].wrote
    /\ "result" \in DOMAIN offered[2].text

\* ------------------------------------------------------------------------
\* Claims about get_connection
\* ------------------------------------------------------------------------
\* the number of finished attempts whose outcome is one of kinds
RECURSIVE CountOf(_, _)
CountOf(trace, kinds) ==
    IF trace = <<>> THEN 0
    ELSE (IF Head(trace) \in kinds THEN 1 ELSE 0) + CountOf(Tail(trace), kinds)

\* C11: every finished attempt of get_connection adds one to exactly one
\* counter, the failure counter when the pool get or the ping failed and the
\* success counter when both succeeded; a call that returns a connection
\* after k failed attempts has counted k failures and one success.
C11_OneCounterPerAttempt ==
    /\ conn_failures = CountOf(gc.trace, {"get_err", "ping_err"})
    /\ conn_success = CountOf(gc.trace, {"ok"})
    /\ conn_success + conn_failures = Len(gc.trace)
    /\ gc.pc = "ok" =>
          /\ gc.ret \in PoolConns
          /\ conn_success = 1
          /\ conn_failures = gc.attempts - 1

C11_Witness ==
    /\ gc.pc = "ok"
    /\ gc.trace = <<"get_err", "ping_err", "ok">>
    /\ conn_failures = 2
    /\ conn_success = 1
    /\ gc.ret \in PoolConns

\* every finished attempt so far failed at the pool
OnlyPoolFailures == \A i \in 1..Len(gc.trace) : gc.trace[i] = "get_err"

\* C12: when the pool get fails on every attempt, get_connection makes at
\* most one attempt more than it has retries, sleeps the initial backoff
\* before the second attempt and twice the previous sleep before each later
\* one, and returns an error at the last attempt.
C12_PoolFailuresBackOffAndGiveUp ==
    OnlyPoolFailures =>
        /\ gc.attempts <= Retries + 1
        /\ Len(gc.slept) <= Retries
        /\ \A i \in 1..Len(gc.slept) :
              gc.slept[i] = InitialBackoff * 2 ^ (i - 1)
        /\ gc.pc # "ok"
        /\ gc.pc = "err" <=> Len(gc.trace) = Retries + 1
        /\ gc.pc = "err" => (gc.ret = 0 /\ Len(gc.slept) = Retries)

C12_Witness ==
    /\ gc.pc = "err"
    /\ gc.attempts = 4
    /\ gc.slept = <<100, 200, 400>>
    /\ conn_failures = 4

\* C13: failed pings use up the same retries as failed pool gets: whatever
\* the mixture of the two, the retry counter never goes below zero and no
\* attempt is made after the retries are used up.
C13_FailedPingsUseTheRetryBudget ==
    /\ gc.retries >= 0
    /\ gc.attempts <= Retries + 1

\* C14: get_connection returns a connection only when the PING sent on that
\* connection in the same attempt succeeded.
C14_ReturnedConnectionWasPinged ==
    /\ gc.ret # 0 => (gc.pc = "ok" /\ gc.ret = gc.conn /\ gc.pinged = gc.ret)
    /\ gc.pc = "ok" => (gc.ret \in PoolConns /\ gc.trace[Len(gc.trace)] = "ok")
    /\ \A i \in 1..(Len(gc.trace) - 1) : gc.trace[i] # "ok"

C14_Witness ==
    /\ gc.pc = "ok"
    /\ gc.trace = <<"ping_err", "ok">>
    /\ gc.pinged = gc.ret
    /\ gc.ret \in PoolConns

\* ------------------------------------------------------------------------
\* Claims about the lines read by run
\* ------------------------------------------------------------------------
\* a line whose read_line count is over the limit
Oversized(raw) == Bytes(raw) + 1 > MaxRequestSize

\* the tokens of a line
Tokens(line) == {line[k] : k \in 1..Len(line)}

\* C15: an oversized line is discarded: no batch entry holds any of its
\* bytes, and every line accepted after it is enqueued as it arrived (up to
\* the trimming of blanks), with nothing prepended to it.
C15_OversizedLineDiscarded ==
    \A j \in 1..Len(accepted) :
        /\ accepted[j] = Trim(raw_accepted[j])
        /\ \A tok \in Tokens(accepted[j]) : ~Oversized(<<tok>>)

\* ------------------------------------------------------------------------
\* Claims about failed tools and failed tasks
\* ------------------------------------------------------------------------
\* the failures of a collaborator: the store or the remote API
CollaboratorFailures == {"err_conn", "err_op", "err_status"}

\* the response of task j is a tool-level error result with the request id
IsToolErrorResult(j) ==
    /\ handles[j].pc = "done"
    /\ handles[j].out # Some(JoinErr)
    /\ LET v == handles[j].out[1][2][1] IN
       /\ "error" \notin DOMAIN v
       /\ "result" \in DOMAIN v
       /\ "isError" \in DOMAIN v.result
       /\ v.result.isError
       /\ Len(v.result.content) = 2
       /\ v.id = json_id(RequestId(handles[j].line))

\* C16: a dispatched tool whose store or remote API failed gets a result
\* with isError = true, a message and the request id, never an error
\* member, and the other slots of the batch still get their responses.
C16_CollaboratorFailureIsToolError ==
    /\ \A j \in 1..Len(handles) :
          handles[j].event \in CollaboratorFailures => IsToolErrorResult(j)
    /\ (pc \in {"buffer", "done"} /\ handles # <<>>) =>
          Len(offered) + Len(responses) = Len(handles)

\* what the code does: the tool-level error result is given exactly when the
\* tool returned Err, which update_trello_task does not do on a non-success
\* status
C16_ReturnedErrIsToolError ==
    \A j \in 1..Len(handles) :
        (handles[j].event # "" /\ handles[j].event # "panic") =>
            (IsToolErrorResult(j) <=>
                tool_result(handles[j].ran[1], handles[j].event) # "")

\* C17: a batch of N lines gets exactly N responses, one per slot: the slot
\* of a task that failed holds an internal-error response with code -32603,
\* and every other slot holds the response its own task returned.
C17_FailedSlotGetsInternalError ==
    (pc \in {"buffer", "done"} /\ handles # <<>>) =>
        LET all == offered \o responses IN
        /\ Len(all) = Len(accepted)
        /\ \A j \in 1..Len(all) :
              IF handles[j].out = Some(JoinErr)
              THEN /\ "error" \in DOMAIN all[j].text
                   /\ "result" \notin DOMAIN all[j].text
                   /\ all[j].text.error.code = -32603
              ELSE all[j].text = handles[j].out[1][2][1]

C17_Witness ==
    /\ pc = "done"
    /\ Len(handles) = 2
    /\ handles[1].event = "panic"
    /\ handles[2].wrote
    /\ Len(offered) = 2
    /\ offered[1].text.error.code = -32603
    /\ offered[2].text = handles[2].out[1][2][1]

\* ------------------------------------------------------------------------
\* Claims about take_trello_task
\* ------------------------------------------------------------------------
\* C18: of the calls for one card made by different agents, at most one gets
\* past the check and writes the assignment.
C18_AtMostOneClaimPerCard ==
    \A i, j \in 1..Len(calls) :
        (/\ i # j
         /\ calls[i].card_id = calls[j].card_id
         /\ calls[i].agent_id # calls[j].agent_id) =>
            /\ ~(calls[i].passed /\ calls[j].passed)
            /\ ~(calls[i].wrote /\ calls[j].wrote)

\* C37: a call of take_trello_task that returns an error leaves the store
\* as it found it: when the comment is refused on every attempt and no
\* other call claimed the card for the agent, the card has no assignment to
\* the agent and is not in the agent's task set.
C37_FailedTakeLeavesNoAssignment ==
    \A i \in 1..Len(calls) :
        (/\ calls[i].pc = "done"
         /\ calls[i].ret = "err_trello"
         /\ \A j \in 1..Len(calls) :
               (j # i /\ calls[j].agent_id = calls[i].agent_id
                      /\ calls[j].card_id = calls[i].card_id) =>
                  ~calls[j].wrote) =>
            /\ redis.assignment[calls[i].card_id] # calls[i].agent_id
            /\ calls[i].card_id \notin redis.tasks[calls[i].agent_id]

\* ------------------------------------------------------------------------
\* Claims about flushing and about the cache key
\* ------------------------------------------------------------------------
\* the buffer take_buffer returns in the round of the loop that starts here
Taken ==
    IF ResponseBuffer_add(response_buffer, Head(responses)).ok
    THEN Append(response_buffer.buffer, Head(responses))
    ELSE response_buffer.buffer

\* C19: a flush appends the whole taken buffer to stdout in insertion
\* order and leaves the accumulator empty: as one compressed stream when it
\* holds more than the compression threshold, item by item and uncompressed
\* otherwise.
C19_FlushWritesWholeBufferInOrder ==
    [][stdout' # stdout =>
        LET new == SubSeq(stdout', Len(stdout) + 1, Len(stdout')) IN
        /\ SubSeq(stdout', 1, Len(stdout)) = stdout
        /\ Items(new) = Taken
        /\ IF Len(Taken) > CompressOver
           THEN Len(new) = 1 /\ new[1].gz
           ELSE /\ Len(new) = Len(Taken)
                /\ \A k \in 1..Len(new) :
                      ~new[k].gz /\ new[k].items = <<Taken[k]>>
        /\ response_buffer'.buffer = <<>>
        /\ response_buffer'.current_size = 0]_vars

C19_Witness ==
    /\ Len(stdout) = 2
    /\ Items(stdout) = offered
    /\ offered[1] # offered[2]
    /\ ~stdout[1].gz
    /\ ~stdout[2].gz
    /\ response_buffer.buffer = <<>>

\* no flush is ever compressed: should_flush empties the accumulator long
\* before it holds more items than the compression threshold
FlushNeverCompressed ==
    /\ \A k \in 1..Len(stdout) : ~stdout[k].gz
    /\ Len(response_buffer.buffer) < FlushItems

\* C20: the cache key is the line as it arrived: two accepted lines that
\* differ, be it only in leading or trailing blanks, are looked up under
\* different keys, and neither is served the response cached for the other.
C20_KeyIsRawLine ==
    \A j, w \in 1..Len(handles) :
        (/\ raw_accepted[j] # raw_accepted[w]
         /\ Trim(raw_accepted[j]) = Trim(raw_accepted[w])) =>
            /\ handles[j].line # handles[w].line
            /\ ~(handles[j].from # 0 /\ handles[j].from = handles[w].setClock)

\* ------------------------------------------------------------------------
\* Claims about the search subsystem
\* ------------------------------------------------------------------------
\* the clauses the SearchParams ask for: the text clause, then the tag
\* clauses, then the numeric-range clauses
C24_Clauses(params) ==
    (IF params.query = <<>> THEN <<>>
     ELSE IF params.fuzzy_distance # None
          THEN << <<"@", "content", ":", "%">> \o params.query \o <<"%">> >>
          ELSE << <<"@", "content", ":">> \o params.query >>)
    \o [k \in 1..Len(params.filters) |->
           <<"@", params.filters[k][1], ":", "{", params.filters[k][2], "}">>]
    \o [k \in 1..Len(params.numeric_filters) |->
           <<"@", params.numeric_filters[k][1], ":", "[",
             params.numeric_filters[k][2], " ",
             params.numeric_filters[k][3], "]">>]

\* the clauses written one after another with one space between neighbours
RECURSIVE C24_SpaceJoined(_)
C24_SpaceJoined(clauses) ==
    IF Len(clauses) = 1 THEN clauses[1]
    ELSE C24_SpaceJoined(SubSeq(clauses, 1, Len(clauses) - 1))
             \o <<" ">> \o clauses[Len(clauses)]

\* C24: the query expression is the single-space join of the text clause
\* (fuzzy pattern @content:%q% when a fuzzy distance is set, exact pattern
\* @content:q otherwise) when the query is non-empty, then one tag clause
\* per filter in order, then one numeric-range clause per numeric filter in
\* order; when there is no clause at all the expression is *.
C24_QueryIsJoinOfClauses ==
    qb.pc = "done" =>
        qb.query = IF C24_Clauses(qb.params) = <<>>
                   THEN <<"*">>
                   ELSE C24_SpaceJoined(C24_Clauses(qb.params))

C24_Witness ==
    /\ qb.pc = "done"
    /\ qb.params.query # <<>>
    /\ qb.params.fuzzy_distance # None
    /\ Len(qb.params.filters) = 2
    /\ qb.params.filters[1] # qb.params.filters[2]
    /\ Len(qb.params.numeric_filters) >= 1
    /\ Len(qb.parts) = 4

\* ------------------------------------------------------------------------
\* Claims about what the cache holds
\* ------------------------------------------------------------------------
\* the value is the response of a successful tool: a result with content
\* and without isError, and no error member
C21_IsSuccessResponse(value) ==
    /\ "result" \in DOMAIN value
    /\ "error" \notin DOMAIN value
    /\ "content" \in DOMAIN value.result
    /\ "isError" \notin DOMAIN value.result

\* C21: every entry of the cache is the response of a tools/call request
\* whose operation returned success: its key is a tools/call line, its value
\* is a success response, and a task of that line ran the tool to success
\* and wrote it. JSON-RPC errors, isError results and the responses to
\* initialize and tools/list are never stored.
C21_OnlySuccessfulToolCallsCached ==
    \A k \in 1..Len(cache) :
        LET request == from_str(Trim(cache[k].key)) IN
        /\ request # None
        /\ as_str(request[1].method) = Some("tools/call")
        /\ C21_IsSuccessResponse(cache[k].value)
        /\ \E i \in 1..Len(handles) :
              /\ handles[i].line = cache[k].key
              /\ handles[i].wrote
              /\ handles[i].ran # None
              /\ tool_result(handles[i].ran[1], handles[i].event) = ""
              /\ handles[i].out = Some(JoinOk(Some(cache[k].value)))

C21_Witness ==
    /\ Len(cache) = 1
    /\ \E i, j \in 1..Len(handles) :
          /\ handles[i].pc = "done"
          /\ handles[i].event = "err_op"
          /\ ~handles[i].wrote
          /\ handles[j].wrote
          /\ handles[j].line = cache[1].key

\* ------------------------------------------------------------------------
\* Claims about the decoding of a search reply
\* ------------------------------------------------------------------------
\* the number of whole groups of a reply, and the elements of group j
C22_Groups(reply) == (Len(reply) - 1) \div 3
C22_Key(reply, j) == reply[3 * j - 1]
C22_Score(reply, j) == reply[3 * j]
C22_FieldList(reply, j) == reply[3 * j + 1]

\* a reply [total, key1, score1, fields1, ..., keyK, scoreK, fieldsK]: an
\* integer, then whole groups of a key, a score that is a number, and a list
\* of name/value pairs
C22_WellFormed(reply) ==
    /\ Len(reply) >= 1
    /\ IsInt(reply[1])
    /\ (Len(reply) - 1) % 3 = 0
    /\ \A j \in 1..C22_Groups(reply) :
          /\ IsData(C22_Key(reply, j))
          /\ IsData(C22_Score(reply, j))
          /\ parse_f64(C22_Score(reply, j).data) # None
          /\ IsBulk(C22_FieldList(reply, j))
          /\ Len(C22_FieldList(reply, j).bulk) % 2 = 0
          /\ \A k \in 1..Len(C22_FieldList(reply, j).bulk) :
                IsData(C22_FieldList(reply, j).bulk[k])

\* the record of a group after its first n name/value pairs: the object of
\* the whole-document name is merged, any other value is stored under its
\* name, parsed as JSON when possible and as a raw string otherwise
RECURSIVE C22_Record(_, _, _, _)
C22_Record(key, score, fields, n) ==
    IF n = 0
    THEN ("_key" :> JStr(key.data)) @@
         ("_score" :> JNum(parse_f64(score.data)[1]))
    ELSE LET before == C22_Record(key, score, fields, n - 1)
             name == fields[2 * n - 1].data
             text == fields[2 * n].data
             parsed == from_str_value(text)
         IN
         IF name = "$" /\ parsed # None /\ parsed[1].kind = "object"
         THEN as_object(parsed[1])[1] @@ before
         ELSE (name :> (IF parsed # None THEN parsed[1] ELSE JStr(text)))
                  @@ before

\* the decoded value of a well-formed reply, as the statement describes it
C22_Decoded(d) ==
    /\ d.ret[1].total = d.reply[1].int
    /\ Len(d.ret[1].results) = C22_Groups(d.reply)
    /\ \A j \in 1..C22_Groups(d.reply) :
          d.ret[1].results[j] =
              C22_Record(C22_Key(d.reply, j), C22_Score(d.reply, j),
                         C22_FieldList(d.reply, j).bulk,
                         Len(C22_FieldList(d.reply, j).bulk) \div 2)

\* C22: for a well-formed reply [total, key1, score1, fields1, ..., keyK,
\* scoreK, fieldsK] the decoding returns: it yields total = element 0 and
\* exactly K records in reply order, record j holding _key = keyj, _score =
\* scorej as a number, and for each name/value pair of fieldsj the value
\* parsed as JSON when possible and kept as a raw string otherwise.
C22_WellFormedReplyDecoded ==
    C22_WellFormed(dec.reply) =>
        /\ dec.pc # "panic"
        /\ dec.pc = "done" => C22_Decoded(dec)

\* no field of the reply has the whole-document name
C22_NoSentinel(reply) ==
    \A j \in 1..C22_Groups(reply) :
        \A k \in 1..(Len(C22_FieldList(reply, j).bulk) \div 2) :
            C22_FieldList(reply, j).bulk[2 * k - 1].data # "$"

\* what does hold: a well-formed reply without the whole-document name is
\* decoded as stated
DecodeOrdinaryFields ==
    (C22_WellFormed(dec.reply) /\ C22_NoSentinel(dec.reply)) =>
        /\ dec.pc # "panic"
        /\ dec.pc = "done" => C22_Decoded(dec)

\* the groups of a reply, whole or cut short
C23_Starts(reply) == {i \in 1..(Len(reply) - 1) : i % 3 = 1}

\* the groups a decoder that skips what it cannot read returns a record for
C23_Readable(reply) ==
    {i \in C23_Starts(reply) :
        /\ key_of(get(reply, i)) # None
        /\ get(reply, i + 2) # None
        /\ IsBulk(get(reply, i + 2)[1])}

\* C23: decoding terminates for every reply: each round of the walk moves
\* on by the stride of 3, also over a group whose key is malformed, whose
\* field list is missing or not a list, or that is cut short; once it is
\* done, every group that can be read has its record in the result.
C23_DecodingAdvancesAndTerminates ==
    /\ dec.pc \in {"walk", "done"} => dec.index = 1 + 3 * dec.steps
    /\ dec.pc = "done" =>
          Len(dec.ret[1].results) = Cardinality(C23_Readable(dec.reply))

\* C38: decoding never aborts on the whole-document name: whatever JSON the
\* value of a $ pair holds, object or not, the walk goes on to its end.
C38_SentinelNeverAborts ==
    dec.pc # "panic"

\* C26: the value a successful advanced_search returns carries the number
\* of matches as an unsigned integer under the member count.
C26_ResultCarriesCount ==
    dec.pc = "done" =>
        /\ "count" \in DOMAIN dec.ret[1]
        /\ dec.ret[1].count = dec.total_results

\* ------------------------------------------------------------------------
\* Claims about schema registration
\* ------------------------------------------------------------------------
\* C25: no search command is issued against an index before a create of
\* that index has completed successfully at least once: every FT.SEARCH in
\* the log is preceded by a successful create of the same index.
C25_SearchOnlyAfterCreate ==
    \A i \in 1..Len(idx.log) :
        (idx.log[i].op = "search" /\ idx.log[i].issued) =>
            \E j \in 1..(i - 1) :
                /\ idx.log[j].op = "create"
                /\ idx.log[j].name = idx.log[i].name
                /\ idx.log[j].ok

\* the create calls of the log that got a connection
C32_Creates ==
    {i \in 1..Len(idx.log) : idx.log[i].op = "create" /\ idx.log[i].issued}

\* C32: registration always sends the drop of the same-named index before
\* the create; a failing drop never makes registration fail, the create is
\* still sent and decides the result; a failing create makes registration
\* return the error.
C32_DropThenCreate ==
    \A i \in C32_Creates :
        /\ idx.log[i].cmds = <<"FT.DROPINDEX", "FT.CREATE">>
        /\ idx.log[i].ret = (IF idx.log[i].ok THEN "ok" ELSE "err")
        /\ idx.log[i].ok => idx.exists[idx.log[i].name]
                             \/ \E j \in (i + 1)..Len(idx.log) :
                                    /\ j \in C32_Creates
                                    /\ idx.log[j].name = idx.log[i].name

\* a drop failed and the registration succeeded, a create failed and the
\* registration returned the error
C32_Witness ==
    /\ \E i \in C32_Creates : ~idx.log[i].drop_ok /\ idx.log[i].ret = "ok"
    /\ \E i \in C32_Creates : idx.log[i].drop_ok /\ idx.log[i].ret = "ok"
    /\ \E i \in C32_Creates : ~idx.log[i].ok /\ idx.log[i].ret = "err"

\* ------------------------------------------------------------------------
\* Claims about concurrent calls of the cache
\* ------------------------------------------------------------------------
\* the call of task t has had, on the cache and the counters, the effect of
\* the one-step get or set applied to what it found when it got the lock
C28_AsOneStep(t) ==
    IF t.op = "get"
    THEN LET r == ResponseCache_get(t.snap, t.key, t.at) IN
         /\ cache = r.cache
         /\ t.ret = r.ret
         /\ hits = t.h0 + r.dh
         /\ misses = t.m0 + r.dm
         /\ evictions = t.e0 + r.de
    ELSE LET r == ResponseCache_set(t.snap, t.key, t.value, t.at) IN
         /\ cache = r.cache
         /\ hits = t.h0
         /\ misses = t.m0
         /\ evictions = t.e0 + r.de

\* C28: concurrent get and set calls exclude each other and are atomic: at
\* most one task is between taking and releasing the lock, a call that is
\* about to release has changed the cache and the counters exactly as the
\* one-step operation would have, and when all tasks get the same key, an
\* expired entry of it is removed once and counted as one eviction.
C28_CacheCallsExclusiveAndAtomic ==
    /\ \A i, j \in 1..Len(ltasks) :
          (InCritical(ltasks[i]) /\ InCritical(ltasks[j])) => i = j
    /\ \A i \in 1..Len(ltasks) :
          /\ InCritical(ltasks[i]) => lock = i
          /\ ltasks[i].pc = "release" => C28_AsOneStep(ltasks[i])
    /\ (/\ ltasks # <<>>
        /\ \A i \in 1..Len(ltasks) :
              /\ ltasks[i].op = "get"
              /\ ltasks[i].key = ltasks[1].key) =>
            /\ evictions <= 1
            /\ (\A i \in 1..Len(ltasks) : ltasks[i].pc = "done") =>
                  hits + misses = Len(ltasks)

C28_Witness ==
    /\ Len(ltasks) >= 2
    /\ \A i \in 1..Len(ltasks) :
          /\ ltasks[i].op = "get"
          /\ ltasks[i].key = ltasks[1].key
          /\ ltasks[i].pc = "done"
          /\ ltasks[i].ret = None
    /\ evictions = 1
    /\ misses = Len(ltasks)
    /\ ltasks[1].key \notin Keys(cache)

\* ------------------------------------------------------------------------
\* Claims about the order of the checks of a request
\* ------------------------------------------------------------------------
\* the code of the first check a request line fails, 0 when it passes all
C29_FirstFailure(line) ==
    LET request == from_str(Trim(line)) IN
    IF request = None THEN -32700
    ELSE IF request[1].method = None \/ ~request[1].method[1].isStr
    THEN -32600
    ELSE IF request[1].method[1].text
                \notin {"initialize", "tools/list", "tools/call"}
    THEN -32601
    ELSE IF request[1].method[1].text # "tools/call" THEN 0
    ELSE IF \/ request[1].params = None
            \/ request[1].params[1].name = None
            \/ request[1].params[1].arguments = None
    THEN -32602
    ELSE IF \A k \in 1..Len(ToolNames) :
                ToolNames[k] # request[1].params[1].name[1]
    THEN -32601
    ELSE 0

\* C29: a request that is not served from the cache is answered with the
\* code of the first check it fails, in the order: not valid JSON -32700,
\* no string method -32600, unknown method -32601, tools/call params that
\* are not {name, arguments} -32602, unknown tool -32601; a request that
\* passes them all gets no error member. The failing request ends as an
\* ordinary response of its task, and every task of the batch is still
\* awaited and its response offered.
C29_FirstFailingCheckDecides ==
    /\ \A i \in 1..Len(handles) :
          (handles[i].pc = "done" /\ ~handles[i].hit) =>
              LET code == C29_FirstFailure(handles[i].line)
                  out == handles[i].out[1]
              IN
              IF code # 0
              THEN /\ out # JoinErr
                   /\ out[2] # None
                   /\ "error" \in DOMAIN out[2][1]
                   /\ "result" \notin DOMAIN out[2][1]
                   /\ out[2][1].error.code = code
              ELSE out # JoinErr => "error" \notin DOMAIN out[2][1]
    /\ pc \in {"buffer", "loopend", "done"} =>
          Len(offered) + Len(responses) = Len(handles)

C29_Witness ==
    /\ Len(handles) = 2
    /\ handles[1].line = <<"callbadunk">>
    /\ handles[1].pc = "done"
    /\ handles[1].out[1][2][1].error.code = -32602
    /\ handles[2].line = <<"garbage">>
    /\ Len(offered) = 2

\* ------------------------------------------------------------------------
\* Claims about the sequencing of batches
\* ------------------------------------------------------------------------
\* C27: batches are handled one after another: while the tasks of a batch
\* are awaited and its responses offered, no input line is read, no line is
\* accepted and no task is spawned; the awaiting ends only when every task
\* of the batch has finished and been awaited, and the offering ends only
\* when every response of the batch has been offered; tasks are spawned
\* only on leaving the collection of a batch and run only while awaited.
C27_BatchHandledBeforeNext ==
    [][/\ pc \in {"await", "buffer"} =>
             /\ input' = input
             /\ eof_seen' = eof_seen
             /\ accepted' = accepted
             /\ batch_buffer' = batch_buffer
             /\ Len(handles') = Len(handles)
             /\ \A i \in 1..Len(handles) : handles'[i].line = handles[i].line
       /\ (pc = "await" /\ pc' # "await") =>
             /\ pc' = "buffer"
             /\ Len(responses') = Len(handles)
             /\ \A i \in 1..Len(handles) : handles[i].pc = "done"
       /\ (pc = "buffer" /\ pc' # "buffer") =>
             /\ responses = <<>>
             /\ Len(offered) = Len(handles)
       /\ handles' # handles =>
             IF Len(handles') = Len(handles)
             THEN pc = "await" /\ pc' = "await"
             ELSE pc = "collect" /\ pc' = "await" /\ responses' = <<>>]_vars

C27_Witness ==
    /\ pc = "buffer"
    /\ input # <<>>
    /\ handles # <<>>
    /\ responses = <<>>
    /\ Len(offered) = Len(handles)

\* ------------------------------------------------------------------------
\* Claims about repeated requests
\* ------------------------------------------------------------------------
\* C30: for identical tools/call lines the tool is executed at most once
\* per ttl window, also when their tasks are in the same batch: within one
\* window no two tasks of the same line both run the tool to success and
\* write its response.
C30_ToolRunsOncePerWindow ==
    now < Ttl =>
        \A j, w \in 1..Len(handles) :
            (j # w /\ handles[j].line = handles[w].line) =>
                ~(handles[j].wrote /\ handles[w].wrote)

\* ------------------------------------------------------------------------
\* Claims about the size of the cache
\* ------------------------------------------------------------------------
\* C33: after any sequence of get and set calls the cache never holds more
\* entries than its capacity, and never two entries of one key.
C33_NeverOverCapacity ==
    /\ Len(cache) <= CacheCapacity
    /\ Cardinality(Keys(cache)) = Len(cache)

\* a set of a new key has just found the cache full
C33_Witness ==
    /\ lastOp.op = "set"
    /\ lastOp.wasNew
    /\ lastOp.wasFull
    /\ Len(cache) = CacheCapacity
    /\ lastOp.key \in Keys(cache)

\* ------------------------------------------------------------------------
\* Claims about a request served from the cache
\* ------------------------------------------------------------------------
\* task i is served from the cache in this step
C34_Hits(i) ==
    /\ Len(handles') = Len(handles)
    /\ handles[i].pc = "lookup"
    /\ handles'[i].hit

\* C34: a request that hits an unexpired entry returns the value of that
\* entry without parsing the line, taking a connection or running a tool;
\* the store and the pool are untouched and the cache holds the same
\* entries afterwards, the entry hit moved to the most recent position.
C34_HitTouchesOnlyRecency ==
    [][\A i \in 1..Len(handles) :
         C34_Hits(i) =>
            /\ handles'[i].pc = "done"
            /\ handles'[i].ran = None
            /\ handles'[i].conn = 0
            /\ handles'[i].event = ""
            /\ ~handles'[i].wrote
            /\ \E k \in 1..Len(cache) :
                  /\ cache[k].key = handles[i].line
                  /\ cache[k].expires_at > now
                  /\ handles'[i].out = Some(JoinOk(Some(cache[k].value)))
                  /\ cache' = <<cache[k]>> \o RemoveAt(cache, k)
            /\ UNCHANGED <<gc, conn_success, conn_failures, redis, calls>>
            /\ UNCHANGED <<in_use, stdout, misses, evictions>>
            /\ hits' = hits + 1]_vars

\* a task has been served from the cache while another task of the batch
\* went to its tool
C34_Witness ==
    \E i, j \in 1..Len(handles) :
        /\ handles[i].hit
        /\ handles[i].pc = "done"
        /\ handles[i].from # 0
        /\ handles[i].ran = None
        /\ handles[j].ran # None
        /\ handles[j].wrote
        /\ cache # <<>>
        /\ cache[1].key = handles[i].line

\* ------------------------------------------------------------------------
\* Claims about the accumulator of responses
\* ------------------------------------------------------------------------
\* C35: a response the accumulator refuses is not lost: every response
\* offered so far is either on stdout or still in the accumulator, once and
\* in the order of the offers.
C35_RefusedResponseKept ==
    Items(stdout) \o response_buffer.buffer = offered

\* C36: the accumulator is emptied as soon as it holds the flush count of
\* items, so a flush takes at most that many items, the accumulator never
\* holds more than the compression threshold, and no flush is written as a
\* compressed stream.
C36_FlushBeforeCompression ==
    [][/\ Len(response_buffer'.buffer) < FlushItems
       /\ Len(response_buffer'.buffer) <= CompressOver
       /\ \A k \in 1..Len(stdout') : ~stdout'[k].gz
       /\ stdout' # stdout =>
             /\ Len(Taken) <= FlushItems
             /\ Written(Taken) = [k \in 1..Len(Taken) |->
                                    [gz |-> FALSE, items |-> <<Taken[k]>>]]]_vars

\* a flush has taken as many items as the flush count, uncompressed
C36_Witness ==
    /\ Len(offered) = FlushItems
    /\ \A k \in 1..Len(offered) : offered[k].len = 1
    /\ Items(stdout) = offered
    /\ \A k \in 1..Len(stdout) : ~stdout[k].gz
    /\ response_buffer = ResponseBuffer_new

\* ------------------------------------------------------------------------
\* Claims about the end of run
\* ------------------------------------------------------------------------
\* C39: once end-of-stream has been observed, and with every spawned task
\* completing, run eventually returns.
C39_ReturnsAfterEof ==
    eof_seen ~> (pc = "done")

\* run has returned after end-of-stream and after the responses of a batch
\* were collected and written
C39_Witness ==
    /\ eof_seen
    /\ pc = "done"
    /\ handles # <<>>
    /\ \A i \in 1..Len(handles) : handles[i].pc = "done"
    /\ responses = <<>>
    /\ Len(offered) = Len(handles)

\* ------------------------------------------------------------------------
\* Claims about the read racing the timeout
\* ------------------------------------------------------------------------
\* the bytes run holds for the line being read: the line buffer and what
\* the pending read has taken
C40_Held == line_buffer \o rd.got

\* C40: when the timeout wins against a pending read no input is lost: the
\* bytes received so far of the unfinished line are still held, in order,
\* at the end of what the next read will complete into a line.
C40_CancelledReadKeepsBytes ==
    /\ Len(C40_Held) >= Len(rd.received)
    /\ SubSeq(C40_Held, Len(C40_Held) - Len(rd.received) + 1, Len(C40_Held))
          = rd.received

\* ------------------------------------------------------------------------
\* Claims about the leases of the pool
\* ------------------------------------------------------------------------
\* the connections held by request tasks
C31_Held == {i \in 1..Len(ptasks.tasks) : ptasks.tasks[i].held}

\* C31: leases are bounded and temporary: the connections leased to
\* request tasks never exceed the maximum size of the pool, a task holds a
\* connection only between a granted pool.get() and the end of its
\* operation, and once every request task has completed none of them holds
\* a connection.
C31_LeasesBoundedAndTemporary ==
    /\ Cardinality(C31_Held) <= PoolMaxSize
    /\ in_use <= PoolMaxSize
    /\ in_use = Cardinality(C31_Held) + (IF ptasks.health.held THEN 1 ELSE 0)
    /\ \A i \in 1..Len(ptasks.tasks) :
          ptasks.tasks[i].held <=> ptasks.tasks[i].pc \in {"ping", "op"}
    /\ (\A i \in 1..Len(ptasks.tasks) : ptasks.tasks[i].pc = "done") =>
          C31_Held = {}

C31_Witness ==
    /\ Len(ptasks.tasks) = NumLeaseTasks
    /\ \A i \in 1..Len(ptasks.tasks) : ptasks.tasks[i].pc = "done"
    /\ \E i \in 1..Len(ptasks.tasks) :
          ptasks.tasks[i].refused /\ ptasks.tasks[i].ret = "ok"
    /\ \E i \in 1..Len(ptasks.tasks) :
          ptasks.tasks[i].ret \in {"err_op", "panic"}
    /\ in_use = 0

====
